---------------------------- MODULE Spec2Model ----------------------------
(***************************************************************************)
(* Persistence-and-knowledge subsystem of ActivePaper: the document,       *)
(* concept and review-card repositories over the embedded SQLite store,    *)
(* the SM-2 scheduler and the schema repair-and-retry wrapper.             *)
(*                                                                         *)
(* Conventions.  A table is a set of rows (records).  A nullable column or *)
(* an optional result (`Row | undefined`) is a set with at most one        *)
(* element.  randomUUID() is a fresh identifier drawn from a counter.      *)
(* Date.now() reads the variable clock.  A call that throws leaves, in     *)
(* call, the error it threw.                                               *)
(***************************************************************************)
EXTENDS Integers, Sequences, FiniteSets, TLC

VARIABLES
    clock,      \* Date.now(), in seconds
    nextId,     \* source of randomUUID()
    nCalls,     \* number of repository calls made so far
    call,       \* the last repository call: its name, arguments and outcome
    documents,      \* table documents
    interactions,   \* table interactions
    review_cards,   \* table review_cards
    concepts,               \* table concepts
    interaction_concepts,   \* table interaction_concepts
    document_concepts,      \* table document_concepts
    linkEvents,             \* history: completed links of a concept to a document
    calcIn,         \* arguments of a calculateNextReview call
    calcOut,        \* its result, once it has returned
    dbOpen,         \* db !== null: the store handle is open
    schemaVerified, \* the module flag schemaVerified
    tables,         \* names of the tables and views the store file holds
    schema_version, \* rows of table schema_version (lost when the table is)
    tableRows,      \* number of rows each required table holds
    conversations,          \* table conversations
    conversation_messages   \* table conversation_messages

----------------------------------------------------------------------------
(* Bounds of the model *)

MaxCalls == 4          \* repository calls in one run
MaxTicks == 1          \* advances of the clock in one run
MaxCards == 2          \* review cards in the store
MaxConceptCalls == 2   \* calls of the concepts repository in one run
MaxBatch == 2          \* names in one saveConceptsForInteraction call
MaxMissing == 2        \* required tables missing from the store at one time
MaxRows == 2           \* rows written to the tables of the store file
MaxSearchRows == 2     \* saveInteraction calls before a search
MaxLookupCalls == 2    \* calls that add rows before the lookups by id
MaxQueueCalls == 3     \* createReviewCard and updateReviewCard calls before the queue is read
MaxQueueTicks == 2     \* days that pass while the queue is in use
MaxConversationCalls == 3  \* createConversation and addMessage calls
MaxIntervalIn == 8     \* largest currentInterval given to calculateNextReview
MaxReviewCountIn == 3  \* largest reviewCount given to calculateNextReview
MinEaseIn == 100       \* smallest currentEaseFactor given to it, in hundredths
MaxEaseIn == 300       \* largest currentEaseFactor given to it, in hundredths

----------------------------------------------------------------------------
(* Time.  The source counts milliseconds; the model counts seconds, so that *)
(* a due time many days ahead stays within the model checker's integers:   *)
(* every time the source computes is a whole number of seconds past a       *)
(* reading of the clock, and the clock advances in whole seconds.           *)

\* 24 * 60 * 60 * 1000 milliseconds
ONE_DAY == 24 * 60 * 60

\* the clock advances a day at a time
TickStep == ONE_DAY

Tick ==
    /\ clock + TickStep <= MaxTicks * TickStep
    /\ clock' = clock + TickStep

NoCall == [op |-> "none"]

----------------------------------------------------------------------------
(* documents *)

Filepaths == {"/p/a.pdf", "/p/b.pdf"}
Filenames == {"a.pdf", "b.pdf"}
TotalPagesInputs == {{}, {0}, {7}}

\* db.prepare('SELECT * FROM documents WHERE filepath = ?').get(filepath)
SelectDocumentByFilename(docs, filepath) ==
    LET rows == {d \in docs : d.filename = filepath}
    IN  IF rows = {} THEN {} ELSE {CHOOSE d \in rows : TRUE}

SelectDocumentByFilepath(docs, filepath) ==
    LET rows == {d \in docs : d.filepath = filepath}
    IN  IF rows = {} THEN {} ELSE {CHOOSE d \in rows : TRUE}

\* input.total_pages || null
TotalPagesOrNull(total_pages) ==
    IF total_pages = {} \/ total_pages = {0} THEN {} ELSE total_pages

\* filepath TEXT NOT NULL UNIQUE, id TEXT PRIMARY KEY
DocumentsConstraintOk(docs, row) ==
    /\ \A d \in docs : d.filepath # row.filepath
    /\ \A d \in docs : d.id # row.id

\* UPDATE documents SET last_opened_at = ? WHERE id = ?
ReopenedAsNew(d, now) == [d EXCEPT !.last_opened_at = now, !.scroll_position = 0]

Reopened(d, now) == [d EXCEPT !.last_opened_at = now]

getOrCreateDocument(filename, filepath, total_pages) ==
    LET now      == clock
        existing == SelectDocumentByFilepath(documents, filepath)
    IN  IF existing # {}
        THEN LET e == CHOOSE d \in existing : TRUE
                 upd == [e EXCEPT !.last_opened_at = now]
             IN  /\ documents' = {IF d.id = e.id THEN Reopened(d, now) ELSE d
                                    : d \in documents}
                 /\ call' = [op |-> "getOrCreateDocument", filepath |-> filepath,
                             filename |-> filename, total_pages |-> total_pages,
                             at |-> now,
                             before |-> documents, threw |-> "", ret |-> {upd}]
                 /\ UNCHANGED nextId
        ELSE LET row == [id |-> nextId, filename |-> filename, filepath |-> filepath,
                         last_opened_at |-> now, scroll_position |-> 0,
                         total_pages |-> TotalPagesOrNull(total_pages),
                         created_at |-> now]
             IN  /\ nextId' = nextId + 1
                 /\ IF DocumentsConstraintOk(documents, row)
                    THEN /\ documents' = documents \cup {row}
                         /\ call' = [op |-> "getOrCreateDocument", filepath |-> filepath,
                                     filename |-> filename, total_pages |-> total_pages,
                                     at |-> now,
                                     before |-> documents, threw |-> "", ret |-> {row}]
                    ELSE /\ documents' = documents
                         /\ call' = [op |-> "getOrCreateDocument", filepath |-> filepath,
                                     filename |-> filename, total_pages |-> total_pages,
                                     at |-> now,
                                     before |-> documents, threw |-> "SQLITE_CONSTRAINT_UNIQUE",
                                     ret |-> {}]

\* db.prepare('SELECT * FROM documents WHERE id = ?').get(id)
getDocumentById(id) ==
    /\ call' = [op |-> "getDocumentById", id |-> id, threw |-> "",
                ret |-> {d \in documents : d.id = id}]
    /\ UNCHANGED <<nextId, documents>>

ScrollPositionInputs == {{}, {5}}

\* return result.changes > 0
ChangesAlways(hit) == TRUE

Changes(hit) == hit # {}

\* an input field that is undefined is the empty set
updateDocument(id, scroll_position, total_pages) ==
    IF scroll_position = {} /\ total_pages = {}
    THEN /\ documents' = documents
         /\ call' = [op |-> "updateDocument", id |-> id, fields |-> {},
                     threw |-> "", ret |-> FALSE]
         /\ UNCHANGED nextId
    ELSE LET hit == {d \in documents : d.id = id}
             set(d) == [d EXCEPT
                          !.scroll_position =
                              IF scroll_position = {} THEN @
                              ELSE CHOOSE v \in scroll_position : TRUE,
                          !.total_pages = IF total_pages = {} THEN @ ELSE total_pages]
         IN  /\ documents' = {IF d \in hit THEN set(d) ELSE d : d \in documents}
             /\ call' = [op |-> "updateDocument", id |-> id,
                         fields |-> {"scroll_position" : v \in scroll_position}
                                    \cup {"total_pages" : v \in total_pages},
                         threw |-> "", ret |-> Changes(hit)]
             /\ UNCHANGED nextId

----------------------------------------------------------------------------
(* SM-2 scheduler.  An ease factor is held in hundredths (2.5 is 250): the  *)
(* coefficients 0.1, 0.08, 0.02 and the constants 1.3 and 2.5 are all whole *)
(* hundredths, so the arithmetic below is the exact decimal arithmetic of   *)
(* the source; the representation error of binary floating point is not     *)
(* modelled.                                                                *)

MIN_EASE_FACTOR == 130
INITIAL_EASE_FACTOR == 250

Max(a, b) == IF a >= b THEN a ELSE b
Min(a, b) == IF a <= b THEN a ELSE b

\* Math.round(n / 100): the nearest integer, a half rounding up
Round(n) == (n + 50) \div 100

\* quality = Math.max(0, Math.min(5, quality))
NoClampQuality(quality) == quality

ClampQuality(quality) == Max(0, Min(5, quality))

\* 0.1 - (5 - quality) * (0.08 + (5 - quality) * 0.02), in hundredths
EaseDeltaLinear(quality) == 10 - (5 - quality) * 8

EaseDelta(quality) == 10 - (5 - quality) * (8 + (5 - quality) * 2)

\* newEaseFactor = Math.max(MIN_EASE_FACTOR, newEaseFactor)
NoClampEase(e) == e

ClampEase(e) == Max(MIN_EASE_FACTOR, e)

\* Failed - reset to beginning: newInterval = 1
FailedIntervalSameDay(currentInterval) == 0

FailedInterval(currentInterval) == 1

\* if (quality < 3) the review failed, else it passed
PassedFrom2(q) == q >= 2

Passed(q) == q >= 3

calculateNextReviewOldEase(quality, currentInterval, currentEaseFactor, reviewCount) ==
    LET q == ClampQuality(quality)
        newEaseFactor == ClampEase(currentEaseFactor + EaseDelta(q))
        newInterval ==
            IF ~Passed(q) THEN FailedInterval(currentInterval)
            ELSE IF reviewCount = 0 THEN 1
            ELSE IF reviewCount = 1 THEN 6
            ELSE Round(currentInterval * currentEaseFactor)
    IN  [intervalDays |-> newInterval, easeFactor |-> newEaseFactor]

calculateNextReview(quality, currentInterval, currentEaseFactor, reviewCount) ==
    LET q == ClampQuality(quality)
        newEaseFactor == ClampEase(currentEaseFactor + EaseDelta(q))
        newInterval ==
            IF ~Passed(q) THEN FailedInterval(currentInterval)
            ELSE IF reviewCount = 0 THEN 1
            ELSE IF reviewCount = 1 THEN 6
            ELSE Round(currentInterval * newEaseFactor)
    IN  [intervalDays |-> newInterval, easeFactor |-> newEaseFactor]

\* quality arguments: the ratings 0..5 and one value beyond each end
Qualities == (0 - 1) .. 6

----------------------------------------------------------------------------
(* review_cards.  The columns question and answer are opaque text that no   *)
(* operation reads back, and are left out of the rows.                      *)

\* id TEXT PRIMARY KEY alone, the foreign key not enforced
ReviewCardsNoForeignKey(cards, row) == \A c \in cards : c.id # row.id

\* FOREIGN KEY (interaction_id) REFERENCES interactions(id), id TEXT PRIMARY KEY
ReviewCardsConstraintOk(cards, row) ==
    /\ \E i \in interactions : i.id = row.interaction_id
    /\ \A c \in cards : c.id # row.id

createReviewCard(interaction_id) ==
    LET id == nextId
        now == clock
        nextReviewAt == now + ONE_DAY
        row == [id |-> id, interaction_id |-> interaction_id,
                next_review_at |-> nextReviewAt, interval_days |-> 1,
                ease_factor |-> INITIAL_EASE_FACTOR, review_count |-> 0,
                created_at |-> now]
    IN  /\ nextId' = nextId + 1
        /\ IF ReviewCardsConstraintOk(review_cards, row)
           THEN /\ review_cards' = review_cards \cup {row}
                /\ call' = [op |-> "createReviewCard", threw |-> "", ret |-> {row}]
           ELSE /\ review_cards' = review_cards
                /\ call' = [op |-> "createReviewCard",
                            threw |-> "SQLITE_CONSTRAINT_FOREIGNKEY", ret |-> {}]

\* newReviewCount = quality < 3 ? 0 : card.review_count + 1
NewReviewCountNoReset(quality, review_count) == review_count + 1

NewReviewCount(quality, review_count) ==
    IF quality < 3 THEN 0 ELSE review_count + 1

\* nextReviewAt = now + intervalDays * 24 * 60 * 60 * 1000
NextReviewAtOneDay(now, intervalDays) == now + ONE_DAY

NextReviewAt(now, intervalDays) == now + intervalDays * ONE_DAY

updateReviewCard(cardId, quality) ==
    LET found == {c \in review_cards : c.id = cardId}
    IN  IF found = {}
        THEN /\ review_cards' = review_cards
             /\ call' = [op |-> "updateReviewCard", cardId |-> cardId, quality |-> quality,
                         before |-> {}, at |-> clock, threw |-> "", ret |-> {}]
        ELSE LET card == CHOOSE c \in found : TRUE
                 next == calculateNextReview(quality, card.interval_days,
                                             card.ease_factor, card.review_count)
                 now == clock
                 nextReviewAt == NextReviewAt(now, next.intervalDays)
                 newReviewCount == NewReviewCount(quality, card.review_count)
             IN  /\ review_cards' =
                        {IF c.id = cardId
                         THEN [c EXCEPT !.next_review_at = nextReviewAt,
                                        !.interval_days = next.intervalDays,
                                        !.ease_factor = next.easeFactor,
                                        !.review_count = newReviewCount]
                         ELSE c : c \in review_cards}
                 /\ call' = [op |-> "updateReviewCard", cardId |-> cardId,
                             quality |-> quality, before |-> {card}, at |-> now,
                             threw |-> "",
                             ret |-> {[card EXCEPT !.next_review_at = nextReviewAt,
                                                   !.interval_days = next.intervalDays,
                                                   !.ease_factor = next.easeFactor,
                                                   !.review_count = newReviewCount]}]

\* the row .get() returns: the first row of the result, none when it is empty
FirstRow(rows) == IF rows = {} THEN {{}} ELSE {{r} : r \in rows}

\* db.prepare('SELECT * FROM review_cards WHERE interaction_id = ?').get(interactionId)
getReviewCardForInteraction(interactionId) ==
    /\ \E ret \in FirstRow({c \in review_cards : c.interaction_id = interactionId}) :
          call' = [op |-> "getReviewCardForInteraction", id |-> interactionId,
                   threw |-> "", ret |-> ret]
    /\ UNCHANGED <<nextId, review_cards>>

\* FROM review_cards rc JOIN interactions i ON rc.interaction_id = i.id
\*                      JOIN documents d ON i.document_id = d.id
ReviewCardsWithContext ==
    {c \in review_cards :
        \E i \in interactions :
            /\ i.id = c.interaction_id
            /\ \E d \in documents : d.id = i.document_id}

\* WHERE next_review_at <= ?
Due(cards, now) == {c \in cards : c.next_review_at <= now}

\* ORDER BY rc.next_review_at ASC: the rows that may come first
Latest(rows) == {r \in rows : \A o \in rows : r.next_review_at >= o.next_review_at}

Earliest(rows) == {r \in rows : \A o \in rows : r.next_review_at <= o.next_review_at}

\* the context columns (selected_text, action_type, document_filename) are
\* left out of the row that is returned
\* the rows getNextReviewCard can return at time now, and the count
\* getDueReviewCount returns at time now
NextReviewCardRows(now) == FirstRow(Earliest(Due(ReviewCardsWithContext, now)))

DueReviewCount(now) == Cardinality(Due(review_cards, now))

getNextReviewCard ==
    LET now == clock
    IN  /\ \E ret \in NextReviewCardRows(now) :
              call' = [op |-> "getNextReviewCard", at |-> now, threw |-> "", ret |-> ret]
        /\ UNCHANGED <<nextId, review_cards>>

\* SELECT COUNT(*) as count FROM review_cards WHERE next_review_at <= ?
getDueReviewCount ==
    LET now == clock
    IN  /\ call' = [op |-> "getDueReviewCount", at |-> now, threw |-> "",
                    ret |-> DueReviewCount(now)]
        /\ UNCHANGED <<nextId, review_cards>>

----------------------------------------------------------------------------
(* Strings.  A string is a sequence of characters.  The alphabet holds an   *)
(* ASCII letter in both cases, a second ASCII letter, a non-ASCII letter in *)
(* both cases (U+00C9 and U+00E9, E acute) and the space.                   *)

\* String.prototype.toLowerCase follows Unicode case mapping
JsLowerChar(c) ==
    CASE c = "A" -> "a"
      [] c = "U+00C9" -> "U+00E9"
      [] OTHER -> c

toLowerCase(str) == [i \in DOMAIN str |-> JsLowerChar(str[i])]

\* SQLite's built-in LOWER() folds the 26 ASCII letters only
SqlLowerChar(c) ==
    CASE c = "A" -> "a"
      [] OTHER -> c

LOWER(str) == [i \in DOMAIN str |-> SqlLowerChar(str[i])]

RECURSIVE TrimStart(_)
TrimStart(str) ==
    IF str # <<>> /\ Head(str) = " " THEN TrimStart(Tail(str)) ELSE str

RECURSIVE TrimEnd(_)
TrimEnd(str) ==
    IF str # <<>> /\ str[Len(str)] = " "
    THEN TrimEnd(SubSeq(str, 1, Len(str) - 1))
    ELSE str

\* String.prototype.trim
trim(str) == TrimEnd(TrimStart(str))

ConceptNames ==
    { <<"a">>, <<" ", "A", " ">>, <<"U+00C9">> }

\* the same, and the lower-case form of the non-ASCII letter
UnicodeConceptNames == ConceptNames \cup { <<"U+00E9">> }

RECURSIVE SeqsUpTo(_, _)
SeqsUpTo(S, n) ==
    IF n = 0 THEN {<<>>}
    ELSE LET shorter == SeqsUpTo(S, n - 1)
         IN  shorter \cup {Append(q, x) : q \in shorter, x \in S}

----------------------------------------------------------------------------
(* concepts, interaction_concepts, document_concepts.  The three tables are *)
(* held together in a record db = [concepts, interaction_concepts,          *)
(* document_concepts, nextId], so that a statement is a function from db to *)
(* db and a transaction can put the tables back.                            *)

ConceptDb ==
    [concepts |-> concepts, interaction_concepts |-> interaction_concepts,
     document_concepts |-> document_concepts, nextId |-> nextId]

\* db.prepare('SELECT * FROM concepts WHERE LOWER(name) = ?').get(normalizedName)
SelectConceptByLowerName(tbl, normalizedName) ==
    LET rows == {c \in tbl : LOWER(c.name) = normalizedName}
    IN  IF rows = {} THEN {} ELSE {CHOOSE c \in rows : \A o \in rows : c.id <= o.id}

\* concepts: id TEXT PRIMARY KEY, name TEXT NOT NULL UNIQUE (BINARY collation)
ConceptsConstraintOk(tbl, row) ==
    /\ \A c \in tbl : c.name # row.name
    /\ \A c \in tbl : c.id # row.id

\* The body shared by getOrCreateConcept and the first loop of
\* saveConceptsForInteraction: the concept found or inserted, as
\* [db, threw, concept]
GetOrCreateConceptIn(db, name, now) ==
    LET normalizedName == trim(toLowerCase(name))
        existing == SelectConceptByLowerName(db.concepts, normalizedName)
        row == [id |-> db.nextId, name |-> trim(name), created_at |-> now]
    IN  IF existing # {}
        THEN [db |-> db, threw |-> "", concept |-> existing]
        ELSE IF ConceptsConstraintOk(db.concepts, row)
        THEN [db |-> [db EXCEPT !.concepts = @ \cup {row}, !.nextId = @ + 1],
              threw |-> "", concept |-> {row}]
        ELSE [db |-> [db EXCEPT !.nextId = @ + 1],
              threw |-> "SQLITE_CONSTRAINT_UNIQUE", concept |-> {}]

\* INSERT INTO interaction_concepts: a duplicate of the primary key fails
InsertInteractionLinkPlain(db, interactionId, conceptId) ==
    LET row == [interaction_id |-> interactionId, concept_id |-> conceptId]
    IN  IF row \in db.interaction_concepts
        THEN [db |-> db, threw |-> "SQLITE_CONSTRAINT_PRIMARYKEY"]
        ELSE IF /\ \E i \in interactions : i.id = interactionId
                /\ \E c \in db.concepts : c.id = conceptId
        THEN [db |-> [db EXCEPT !.interaction_concepts = @ \cup {row}], threw |-> ""]
        ELSE [db |-> db, threw |-> "SQLITE_CONSTRAINT_FOREIGNKEY"]

\* INSERT OR IGNORE INTO interaction_concepts (interaction_id, concept_id):
\* a duplicate of the primary key is skipped; a foreign key that points at no
\* row fails the statement
InsertInteractionLink(db, interactionId, conceptId) ==
    LET row == [interaction_id |-> interactionId, concept_id |-> conceptId]
    IN  IF row \in db.interaction_concepts
        THEN [db |-> db, threw |-> ""]
        ELSE IF /\ \E i \in interactions : i.id = interactionId
                /\ \E c \in db.concepts : c.id = conceptId
        THEN [db |-> [db EXCEPT !.interaction_concepts = @ \cup {row}], threw |-> ""]
        ELSE [db |-> db, threw |-> "SQLITE_CONSTRAINT_FOREIGNKEY"]

\* INSERT OR REPLACE INTO document_concepts ... VALUES (?, ?, 1)
UpsertDocLinkOverwrite(db, documentId, conceptId) ==
    LET hit == {r \in db.document_concepts :
                    r.document_id = documentId /\ r.concept_id = conceptId}
        row == [document_id |-> documentId, concept_id |-> conceptId,
                occurrence_count |-> 1]
    IN  IF /\ \E d \in documents : d.id = documentId
           /\ \E c \in db.concepts : c.id = conceptId
        THEN [db |-> [db EXCEPT !.document_concepts = (@ \ hit) \cup {row}], threw |-> ""]
        ELSE [db |-> db, threw |-> "SQLITE_CONSTRAINT_FOREIGNKEY"]

\* UPDATE document_concepts SET occurrence_count = occurrence_count + 1 ...;
\* if (result.changes === 0) INSERT INTO document_concepts ... VALUES (?, ?, 1)
UpsertDocLink(db, documentId, conceptId) ==
    LET hit == {r \in db.document_concepts :
                    r.document_id = documentId /\ r.concept_id = conceptId}
        row == [document_id |-> documentId, concept_id |-> conceptId,
                occurrence_count |-> 1]
    IN  IF hit # {}
        THEN [db |-> [db EXCEPT !.document_concepts =
                        {IF r \in hit
                         THEN [r EXCEPT !.occurrence_count = @ + 1]
                         ELSE r : r \in @}],
              threw |-> ""]
        ELSE IF /\ \E d \in documents : d.id = documentId
                /\ \E c \in db.concepts : c.id = conceptId
        THEN [db |-> [db EXCEPT !.document_concepts = @ \cup {row}], threw |-> ""]
        ELSE [db |-> db, threw |-> "SQLITE_CONSTRAINT_FOREIGNKEY"]

\* for (const name of conceptNames) { ... concepts.push(...) }
RECURSIVE ResolveConcepts(_, _, _, _)
ResolveConcepts(db, names, now, acc) ==
    IF names = <<>> THEN [db |-> db, threw |-> "", concepts |-> acc]
    ELSE LET r == GetOrCreateConceptIn(db, Head(names), now)
         IN  IF r.threw # "" THEN [db |-> r.db, threw |-> r.threw, concepts |-> acc]
             ELSE ResolveConcepts(r.db, Tail(names), now,
                                  Append(acc, CHOOSE c \in r.concept : TRUE))

\* for (const concept of concepts) insertInteractionLink.run(interactionId, concept.id)
RECURSIVE InsertInteractionLinks(_, _, _)
InsertInteractionLinks(db, cs, interactionId) ==
    IF cs = <<>> THEN [db |-> db, threw |-> ""]
    ELSE LET r == InsertInteractionLink(db, interactionId, Head(cs).id)
         IN  IF r.threw # "" THEN r
             ELSE InsertInteractionLinks(r.db, Tail(cs), interactionId)

\* for (const concept of concepts) { updateDocLink.run(...); if (changes === 0) insertDocLink.run(...) }
RECURSIVE UpsertDocLinks(_, _, _)
UpsertDocLinks(db, cs, documentId) ==
    IF cs = <<>> THEN [db |-> db, threw |-> ""]
    ELSE LET r == UpsertDocLink(db, documentId, Head(cs).id)
         IN  IF r.threw # "" THEN r
             ELSE UpsertDocLinks(r.db, Tail(cs), documentId)

\* the statements of the transaction body, run in order up to the first that throws
SaveConceptsBody(db, conceptNames, interactionId, documentId, now) ==
    LET r1 == ResolveConcepts(db, conceptNames, now, <<>>)
    IN  IF r1.threw # "" THEN r1
        ELSE LET r2 == InsertInteractionLinks(r1.db, r1.concepts, interactionId)
             IN  IF r2.threw # ""
                 THEN [db |-> r2.db, threw |-> r2.threw, concepts |-> r1.concepts]
                 ELSE LET r3 == UpsertDocLinks(r2.db, r1.concepts, documentId)
                      IN  [db |-> r3.db, threw |-> r3.threw, concepts |-> r1.concepts]

\* db.transaction(fn)(): the changes of fn stay if it returns and are rolled
\* back if it throws; the identifiers it drew are spent either way
NoTransaction(before, run) == run

Transaction(before, run) ==
    IF run.threw = "" THEN run
    ELSE [run EXCEPT !.db = [before EXCEPT !.nextId = run.db.nextId]]

\* A successful link raises the history count of its (document, concept) pair
Linked(events, documentId, conceptId) ==
    [document_id |-> documentId, concept_id |-> conceptId,
     n |-> 1 + Cardinality({e \in events :
                              e.document_id = documentId /\ e.concept_id = conceptId})]

RECURSIVE LinkedAll(_, _, _)
LinkedAll(events, documentId, cs) ==
    IF cs = <<>> THEN events
    ELSE LinkedAll(events \cup {Linked(events, documentId, Head(cs).id)},
                   documentId, Tail(cs))

StoreConceptDb(db) ==
    /\ concepts' = db.concepts
    /\ interaction_concepts' = db.interaction_concepts
    /\ document_concepts' = db.document_concepts
    /\ nextId' = db.nextId

getOrCreateConcept(db, name, now) == GetOrCreateConceptIn(db, name, now)

linkConceptToInteraction(db, conceptId, interactionId) ==
    InsertInteractionLink(db, interactionId, conceptId)

linkConceptToDocument(db, conceptId, documentId) ==
    UpsertDocLink(db, documentId, conceptId)

saveConceptsForInteraction(db, conceptNames, interactionId, documentId, now) ==
    Transaction(db, SaveConceptsBody(db, conceptNames, interactionId, documentId, now))

\* WHERE ic1.concept_id < ic2.concept_id
LinkPairDistinct(source, target) == source # target

LinkPairOrder(source, target) == source < target

\* FROM interaction_concepts ic1 JOIN interaction_concepts ic2
\*   ON ic1.interaction_id = ic2.interaction_id WHERE ...
ConceptLinkJoin(ic) ==
    {pair \in ic \X ic :
        /\ pair[1].interaction_id = pair[2].interaction_id
        /\ LinkPairOrder(pair[1].concept_id, pair[2].concept_id)}

\* SELECT ic1.concept_id as source, ic2.concept_id as target, COUNT(*) as weight
\*   ... GROUP BY ic1.concept_id, ic2.concept_id HAVING weight > 0
ConceptLinks(ic) ==
    LET joined == ConceptLinkJoin(ic)
        groups == {<<pair[1].concept_id, pair[2].concept_id>> : pair \in joined}
        Weight(g) == Cardinality({pair \in joined :
                                     /\ pair[1].concept_id = g[1]
                                     /\ pair[2].concept_id = g[2]})
    IN  {l \in {[source |-> g[1], target |-> g[2], weight |-> Weight(g)] : g \in groups} :
            l.weight > 0}

\* getAllConcepts: one node per concept, with the sum of its occurrence
\* counts and the number of its documents
RECURSIVE SumOccurrences(_)
SumOccurrences(rows) ==
    IF rows = {} THEN 0
    ELSE LET r == CHOOSE x \in rows : TRUE
         IN  r.occurrence_count + SumOccurrences(rows \ {r})

getAllConcepts(db) ==
    {[id |-> c.id, name |-> c.name, created_at |-> c.created_at,
      total_occurrences |->
          SumOccurrences({dc \in db.document_concepts : dc.concept_id = c.id}),
      document_count |->
          Cardinality({dc.document_id : dc \in {x \in db.document_concepts :
                                                   x.concept_id = c.id}})] :
        c \in db.concepts}

getConceptGraph(db) ==
    [nodes |-> getAllConcepts(db), links |-> ConceptLinks(db.interaction_concepts)]

----------------------------------------------------------------------------
(* Schema manager and the store handle.  The state the functions below     *)
(* work on is a record st = [dbOpen, schemaVerified, tables,               *)
(* schema_version, rows, opCalls, verifyCalls, repairCalls].  The last     *)
(* three                                                                   *)
(* count, while one withSchemaRetry call runs, the invocations of the      *)
(* operation, the calls of verifyAndRepairSchema, and those of them the    *)
(* catch block of withSchemaRetry makes itself.                            *)

SCHEMA_VERSION == 1

REQUIRED_TABLES_V1 ==
    {"documents", "interactions", "concepts", "interaction_concepts",
     "document_concepts", "review_cards"}

V2_TABLES ==
    {"highlights", "bookmarks", "conversations", "conversation_messages",
     "documents_fts", "interactions_fts", "concepts_fts"}

REQUIRED_TABLES_V2 == REQUIRED_TABLES_V1 \cup V2_TABLES

\* no required table holds a row
NoRows == [t \in REQUIRED_TABLES_V2 |-> 0]

\* What can go wrong while the migrations run: nothing, a statement of a
\* migration step (after the step's first table was created), or the write
\* of the version row (after the old row was deleted)
MigrationFaults == {"none", "migration", "version write"}

\* db.transaction(fn)() around the migration steps and the version write
NoMigrationTransaction(before, run) == run

MigrationTransaction(before, run) ==
    IF run.threw = "" THEN run ELSE [run EXCEPT !.st = before]

\* const migrations: Array<() => void>: the tables each migration creates
migrations == <<REQUIRED_TABLES_V1>>

\* for (let i = fromVersion; i < migrations.length; i++) migrations[i]()
\* migrations[i] is step i + 1; applied lists the steps run, in the order run
RECURSIVE MigrationLoop(_, _, _)
MigrationLoop(st, i, applied) ==
    IF i < Len(migrations)
    THEN MigrationLoop([st EXCEPT !.tables = @ \cup migrations[i + 1]], i + 1,
                       Append(applied, i + 1))
    ELSE [st |-> st, applied |-> applied]

\* the loop, then DELETE FROM schema_version; INSERT INTO schema_version (version)
MigrationsBody(st, fromVersion, fault) ==
    IF fromVersion < Len(migrations) /\ fault = "migration"
    THEN [st |-> [st EXCEPT !.tables = @ \cup {"documents"}], threw |-> "SQLITE_ERROR",
          applied |-> <<fromVersion + 1>>]
    ELSE LET m == MigrationLoop(st, fromVersion, <<>>)
             migrated == m.st
         IN  IF fault = "version write"
             THEN [st |-> [migrated EXCEPT !.schema_version = {}], threw |-> "SQLITE_ERROR",
                   applied |-> m.applied]
             ELSE [st |-> [migrated EXCEPT !.schema_version = {SCHEMA_VERSION}],
                   threw |-> "", applied |-> m.applied]

applyMigrations(st, fromVersion, fault) ==
    MigrationTransaction(st, MigrationsBody(st, fromVersion, fault))

\* runMigrations that runs every migration whatever version is recorded
runMigrationsResultAlways(st, fault) ==
    LET rows == IF "schema_version" \in st.tables THEN st.schema_version ELSE {}
        withTable == [st EXCEPT !.tables = @ \cup {"schema_version"},
                                !.schema_version = rows]
    IN  applyMigrations(withTable, 0, fault)

\* CREATE TABLE IF NOT EXISTS schema_version; the version row read back
\* (row?.version || 0); the missing migrations applied and the version
\* written.  As [st, threw, applied].
runMigrationsResult(st, fault) ==
    LET rows == IF "schema_version" \in st.tables THEN st.schema_version ELSE {}
        withTable == [st EXCEPT !.tables = @ \cup {"schema_version"},
                                !.schema_version = rows]
        currentVersion == IF rows = {} THEN 0 ELSE CHOOSE v \in rows : TRUE
    IN  IF currentVersion < SCHEMA_VERSION
        THEN applyMigrations(withTable, currentVersion, fault)
        ELSE [st |-> withTable, threw |-> "", applied |-> <<>>]

runMigrations(st) == runMigrationsResult(st, "none").st

\* { repaired, missingTables }: the required tables that are absent
verifyAndRepairSchemaResultAlways(st) ==
    [repaired |-> TRUE, missingTables |-> REQUIRED_TABLES_V2 \ st.tables]

verifyAndRepairSchemaResult(st) ==
    LET missingTables == REQUIRED_TABLES_V2 \ st.tables
    IN  [repaired |-> missingTables # {}, missingTables |-> missingTables]

\* a repair that drops every required table and creates it again
verifyAndRepairSchemaRecreate(st) ==
    [st EXCEPT !.tables = @ \cup REQUIRED_TABLES_V2,
               !.rows = NoRows,
               !.verifyCalls = @ + 1]

\* every required table that is missing is created; none is dropped or emptied
verifyAndRepairSchema(st) ==
    [st EXCEPT !.tables = @ \cup verifyAndRepairSchemaResult(st).missingTables,
               !.verifyCalls = @ + 1]

getDatabase(st) ==
    LET opened == IF ~st.dbOpen
                  THEN runMigrations([st EXCEPT !.dbOpen = TRUE])
                  ELSE st
    IN  IF ~opened.schemaVerified
        THEN [verifyAndRepairSchema(opened) EXCEPT !.schemaVerified = TRUE]
        ELSE opened

closeDatabase(st) ==
    IF st.dbOpen
    THEN [st EXCEPT !.dbOpen = FALSE, !.schemaVerified = FALSE]
    ELSE st

\* Errors an operation throws: objects with a code and a message.  A
\* message is held as its parts, so that includes('no such table') is a
\* search of the parts.
NoSuchTableError(t) ==
    [code |-> "SQLITE_ERROR", message |-> <<"no such table", t>>]

NoSuchColumnError ==
    [code |-> "SQLITE_ERROR", message |-> <<"no such column", "x">>]

ForeignKeyError ==
    [code |-> "SQLITE_CONSTRAINT_FOREIGNKEY", message |-> <<"FOREIGN KEY constraint failed">>]

Includes(message, part) == \E i \in DOMAIN message : message[i] = part

\* err.code === 'SQLITE_ERROR'
isAnySqliteError(error) == error.code = "SQLITE_ERROR"

\* err.code === 'SQLITE_ERROR' && typeof err.message === 'string'
\*   && err.message.includes('no such table')
isMissingTableError(error) ==
    /\ error.code = "SQLITE_ERROR"
    /\ Includes(error.message, "no such table")

\* An operation is a repository query: it takes the store handle from
\* getDatabase(), then runs a statement on one table.  The statement fails
\* with "no such table" when the table is absent; otherwise it fails the same
\* way on every run (a constraint its arguments violate, a column the table
\* lacks) or succeeds.
OperationTables == REQUIRED_TABLES_V2 \cup {"unknown_table"}

OperationFaults == {"none", "foreign key", "no such column"}

Operations == [table : OperationTables, fault : OperationFaults]

\* one invocation of the operation: [st, error], error empty when it returns
Invoke(st, operation) ==
    LET db == [getDatabase(st) EXCEPT !.opCalls = @ + 1]
    IN  IF operation.table \notin db.tables
        THEN [st |-> db, error |-> {NoSuchTableError(operation.table)}]
        ELSE IF operation.fault = "foreign key"
        THEN [st |-> db, error |-> {ForeignKeyError}]
        ELSE IF operation.fault = "no such column"
        THEN [st |-> db, error |-> {NoSuchColumnError}]
        ELSE [st |-> db, error |-> {}]

\* a wrapper that repairs and runs the operation again after every
\* missing-table error, up to a number of times
RECURSIVE withSchemaRetryAgain(_, _, _, _)
withSchemaRetryAgain(st, operation, invocations, left) ==
    LET r == Invoke(st, operation)
        seen == Append(invocations, r.error)
    IN  IF r.error = {} THEN [st |-> r.st, invocations |-> seen, thrown |-> {}]
        ELSE LET error == CHOOSE e \in r.error : TRUE
             IN  IF ~isMissingTableError(error) \/ left = 0
                 THEN [st |-> r.st, invocations |-> seen, thrown |-> r.error]
                 ELSE LET database == getDatabase(r.st)
                          repairedSt == [verifyAndRepairSchema(database)
                                            EXCEPT !.schemaVerified = TRUE,
                                                   !.repairCalls = @ + 1]
                      IN  withSchemaRetryAgain(repairedSt, operation, seen, left - 1)

withSchemaRetryTwice(st, operation) == withSchemaRetryAgain(st, operation, <<>>, 2)

\* try { return operation() } catch (error) { ... return operation() }, as
\* [st, invocations, thrown]: invocations the sequence of the outcomes of the
\* operation's runs, thrown the error that leaves the call
withSchemaRetry(st, operation) ==
    LET r1 == Invoke(st, operation)
    IN  IF r1.error = {}
        THEN [st |-> r1.st, invocations |-> <<r1.error>>, thrown |-> {}]
        ELSE LET error == CHOOSE e \in r1.error : TRUE
             IN  IF ~isMissingTableError(error)
                 THEN [st |-> r1.st, invocations |-> <<r1.error>>, thrown |-> r1.error]
                 ELSE LET database == getDatabase(r1.st)
                          repairedSt == [verifyAndRepairSchema(database)
                                            EXCEPT !.schemaVerified = TRUE,
                                                   !.repairCalls = @ + 1]
                          r2 == Invoke(repairedSt, operation)
                      IN  [st |-> r2.st, invocations |-> <<r1.error, r2.error>>,
                           thrown |-> r2.error]

SchemaSt ==
    [dbOpen |-> dbOpen, schemaVerified |-> schemaVerified, tables |-> tables,
     schema_version |-> schema_version, rows |-> tableRows,
     opCalls |-> 0, verifyCalls |-> 0,
     repairCalls |-> 0]

StoreSchemaSt(st) ==
    /\ dbOpen' = st.dbOpen
    /\ schemaVerified' = st.schemaVerified
    /\ tables' = st.tables
    /\ schema_version' = st.schema_version
    /\ tableRows' = st.rows

\* the store as getDatabase() leaves it on a fresh file
SchemaReady ==
    /\ dbOpen = TRUE
    /\ schemaVerified = TRUE
    /\ tables = REQUIRED_TABLES_V2 \cup {"schema_version"}
    /\ schema_version = {SCHEMA_VERSION}
    /\ tableRows = NoRows

----------------------------------------------------------------------------
(* conversations and conversation_messages.  A conversation row is          *)
(* [id, document_id, title, created_at, updated_at], title empty for NULL;  *)
(* a message row is [id, conversation_id, role, created_at].                *)

Roles == {"user", "assistant"}

Titles == {"New Title"}

\* conversations: FOREIGN KEY (document_id) REFERENCES documents(id)
createConversation(document_id) ==
    LET row == [id |-> nextId, document_id |-> document_id, title |-> {},
                created_at |-> clock, updated_at |-> clock]
    IN  /\ nextId' = nextId + 1
        /\ IF \E d \in documents : d.id = document_id
           THEN /\ conversations' = conversations \cup {row}
                /\ call' = [op |-> "createConversation", id |-> row.id,
                            threw |-> "", ret |-> {row}, removed |-> 0]
           ELSE /\ conversations' = conversations
                /\ call' = [op |-> "createConversation", id |-> row.id,
                            threw |-> "SQLITE_CONSTRAINT_FOREIGNKEY", ret |-> {},
                            removed |-> 0]
        /\ UNCHANGED conversation_messages

\* the message inserted and the conversation's updated_at refreshed, in one
\* transaction; conversation_messages: FOREIGN KEY (conversation_id)
\* REFERENCES conversations(id) ON DELETE CASCADE
addMessage(conversationId, role) ==
    LET row == [id |-> nextId, conversation_id |-> conversationId, role |-> role,
                created_at |-> clock]
    IN  /\ nextId' = nextId + 1
        /\ IF \E c \in conversations : c.id = conversationId
           THEN /\ conversation_messages' = conversation_messages \cup {row}
                /\ conversations' = {IF c.id = conversationId
                                     THEN [c EXCEPT !.updated_at = clock]
                                     ELSE c : c \in conversations}
                /\ call' = [op |-> "addMessage", id |-> conversationId, at |-> clock,
                            threw |-> "", ret |-> {row}, removed |-> 0]
           ELSE /\ UNCHANGED <<conversations, conversation_messages>>
                /\ call' = [op |-> "addMessage", id |-> conversationId, at |-> clock,
                            threw |-> "SQLITE_CONSTRAINT_FOREIGNKEY", ret |-> {},
                            removed |-> 0]

\* the messages a DELETE of conversation id takes with it
NoCascade(messages, id) == {}

Cascade(messages, id) == {m \in messages : m.conversation_id = id}

\* DELETE FROM conversations WHERE id = ?; returns result.changes > 0
deleteConversation(id) ==
    LET hit == {c \in conversations : c.id = id}
        gone == IF hit = {} THEN {} ELSE Cascade(conversation_messages, id)
    IN  /\ conversations' = conversations \ hit
        /\ conversation_messages' = conversation_messages \ gone
        /\ call' = [op |-> "deleteConversation", id |-> id, threw |-> "",
                    ret |-> hit # {},
                    removed |-> Cardinality({m \in conversation_messages :
                                                m.conversation_id = id})]
        /\ UNCHANGED nextId

\* UPDATE conversations SET title = ?, updated_at = ? WHERE id = ?;
\* returns result.changes > 0
updateConversationTitle(id, title) ==
    LET hit == {c \in conversations : c.id = id}
    IN  /\ conversations' = {IF c \in hit
                             THEN [c EXCEPT !.title = {title}, !.updated_at = clock]
                             ELSE c : c \in conversations}
        /\ call' = [op |-> "updateConversationTitle", id |-> id, threw |-> "",
                    ret |-> hit # {}, removed |-> 0]
        /\ UNCHANGED <<nextId, conversation_messages>>

\* SELECT * FROM conversations WHERE id = ?
getConversationById(id) ==
    /\ call' = [op |-> "getConversationById", id |-> id, threw |-> "",
                ret |-> {c \in conversations : c.id = id}, removed |-> 0]
    /\ UNCHANGED <<nextId, conversations, conversation_messages>>

----------------------------------------------------------------------------
(* interactions and the search over them.  The text of an interaction       *)
(* (selected_text and response) is held as the set of its words, a word a   *)
(* sequence of letters; a query is the sequence of its words.               *)

Words == {<<"x">>, <<"x", "y">>, <<"z">>}

Texts == {{<<"x">>}, {<<"x", "y">>, <<"z">>}, {<<"z">>}}

Queries == SeqsUpTo(Words, 2)

Limits == {1, 2}

\* interactions: FOREIGN KEY (document_id) REFERENCES documents(id)
saveInteraction(document_id, text) ==
    LET row == [id |-> nextId, document_id |-> document_id, text |-> text,
                created_at |-> clock]
    IN  /\ nextId' = nextId + 1
        /\ IF \E d \in documents : d.id = document_id
           THEN /\ interactions' = interactions \cup {row}
                /\ call' = [op |-> "saveInteraction", threw |-> "", ret |-> {row}]
           ELSE /\ interactions' = interactions
                /\ call' = [op |-> "saveInteraction",
                            threw |-> "SQLITE_CONSTRAINT_FOREIGNKEY", ret |-> {}]

\* db.prepare('SELECT * FROM interactions WHERE id = ?').get(id)
getInteractionById(id) ==
    /\ call' = [op |-> "getInteractionById", id |-> id, threw |-> "",
                ret |-> {i \in interactions : i.id = id}]
    /\ UNCHANGED <<nextId, interactions>>

IsPrefix(p, w) == Len(p) <= Len(w) /\ SubSeq(w, 1, Len(p)) = p

\* every word of the query is a prefix of some word of the text
Matches(query, row) ==
    \A i \in DOMAIN query : \E w \in row.text : IsPrefix(query[i], w)

\* relevance: the number of (query word, text word) matches
Rank(query, row) ==
    Cardinality({pair \in (DOMAIN query) \X row.text : IsPrefix(query[pair[1]], pair[2])})

\* rows by descending rank, rows of equal rank by id
RECURSIVE ByRank(_, _)
ByRank(query, rows) ==
    IF rows = {} THEN <<>>
    ELSE LET best == CHOOSE r \in rows :
                        \A o \in rows :
                            \/ Rank(query, r) > Rank(query, o)
                            \/ Rank(query, r) = Rank(query, o) /\ r.id <= o.id
         IN  <<best>> \o ByRank(query, rows \ {best})

\* LIMIT ?
Take(rows, limit) == SubSeq(rows, 1, Min(limit, Len(rows)))

\* the scope of a search
InAnyDocument(row, documentId) == TRUE

InDocument(row, documentId) == row.document_id = documentId

searchInteractionsInDocument(documentId, query, limit) ==
    IF query = <<>> THEN <<>>
    ELSE Take(ByRank(query, {r \in interactions :
                                 Matches(query, r) /\ InDocument(r, documentId)}),
              limit)

----------------------------------------------------------------------------
(* the recent-conversations list *)

\* the orders in which ORDER BY updated_at can return the rows: rows with
\* the same updated_at come in any order
Orderings(rows) ==
    {s \in [1 .. Cardinality(rows) -> rows] :
        \A i, j \in 1 .. Cardinality(rows) : i # j => s[i] # s[j]}

UpdatedAscending(s) ==
    \A i, j \in DOMAIN s : i < j => s[i].updated_at <= s[j].updated_at

UpdatedDescending(s) ==
    \A i, j \in DOMAIN s : i < j => s[i].updated_at >= s[j].updated_at

\* SELECT ... FROM conversations ORDER BY updated_at DESC LIMIT ?
getRecentConversations(limit) ==
    /\ \E s \in {o \in Orderings(conversations) : UpdatedDescending(o)} :
          call' = [op |-> "getRecentConversations", id |-> 0, threw |-> "",
                   ret |-> Take(s, limit), limit |-> limit, removed |-> 0]
    /\ UNCHANGED <<nextId, conversations, conversation_messages>>

----------------------------------------------------------------------------
(* State shared by the specifications below: each specification moves the   *)
(* tables of one repository and holds the others still.                     *)

conceptVars == <<concepts, interaction_concepts, document_concepts, linkEvents>>

repositoryVars == <<clock, nextId, documents, interactions, review_cards, conceptVars,
                    calcIn, calcOut, conversations, conversation_messages>>

vars == <<clock, nextId, nCalls, call, documents, interactions, review_cards,
          concepts, interaction_concepts, document_concepts, linkEvents,
          calcIn, calcOut, dbOpen, schemaVerified, tables, schema_version,
          tableRows, conversations, conversation_messages>>

schemaVars == <<dbOpen, schemaVerified, tables, schema_version, tableRows>>

conversationVars == <<conversations, conversation_messages>>

NoConversations ==
    /\ conversations = {}
    /\ conversation_messages = {}

NoConcepts ==
    /\ concepts = {}
    /\ interaction_concepts = {}
    /\ document_concepts = {}
    /\ linkEvents = {}

NoCalc == [quality |-> 0, currentInterval |-> 1,
           currentEaseFactor |-> INITIAL_EASE_FACTOR, reviewCount |-> 0]

\* one document with two interactions, as a store in use holds them
SeedDocuments ==
    {[id |-> 1, filename |-> "a.pdf", filepath |-> "/p/a.pdf", last_opened_at |-> 0,
      scroll_position |-> 0, total_pages |-> {}, created_at |-> 0]}

SeedInteractions ==
    {[id |-> 2, document_id |-> 1, created_at |-> 0],
     [id |-> 3, document_id |-> 1, created_at |-> 0]}

----------------------------------------------------------------------------
(* SpecDocs: the documents repository on a fresh store *)

DocGetOrCreate ==
    /\ nCalls < MaxCalls
    /\ nCalls' = nCalls + 1
    /\ \E filename \in Filenames, filepath \in Filepaths, total_pages \in TotalPagesInputs :
          getOrCreateDocument(filename, filepath, total_pages)
    /\ UNCHANGED <<clock, interactions, review_cards, conceptVars, calcIn, calcOut, schemaVars, conversationVars>>

DocTick ==
    /\ Tick
    /\ UNCHANGED <<nextId, nCalls, call, documents, interactions, review_cards,
                   conceptVars, calcIn, calcOut, schemaVars, conversationVars>>

InitDocs ==
    /\ clock = 0
    /\ nextId = 1
    /\ nCalls = 0
    /\ call = NoCall
    /\ documents = {}
    /\ interactions = {}
    /\ review_cards = {}
    /\ NoConcepts
    /\ calcIn = NoCalc
    /\ calcOut = {}
    /\ SchemaReady
    /\ NoConversations

NextDocs == DocGetOrCreate \/ DocTick

SpecDocs == InitDocs /\ [][NextDocs]_vars

----------------------------------------------------------------------------
(* SpecReopen: documents opened again after their scroll position was saved *)

DocUpdate ==
    /\ \E id \in {d.id : d \in documents}, scroll_position \in ScrollPositionInputs :
          updateDocument(id, scroll_position, {})
    /\ UNCHANGED <<clock, nCalls, interactions, review_cards, conceptVars, calcIn, calcOut,
                   schemaVars, conversationVars>>

InitReopen == InitDocs

NextReopen == DocGetOrCreate \/ DocUpdate \/ DocTick

SpecReopen == InitReopen /\ [][NextReopen]_vars

----------------------------------------------------------------------------
(* SpecReview: the review-card repository on a store that holds a document  *)
(* and its interactions                                                     *)

RevCreate ==
    /\ nCalls < MaxCalls
    /\ nCalls' = nCalls + 1
    /\ Cardinality(review_cards) < MaxCards
    /\ \E interaction_id \in {i.id : i \in interactions} \cup {nextId} :
          createReviewCard(interaction_id)
    /\ UNCHANGED <<clock, documents, interactions, conceptVars, calcIn, calcOut, schemaVars, conversationVars>>

RevUpdate ==
    /\ nCalls < MaxCalls
    /\ nCalls' = nCalls + 1
    /\ \E cardId \in {c.id : c \in review_cards} \cup {nextId}, quality \in Qualities :
          updateReviewCard(cardId, quality)
    /\ UNCHANGED <<clock, nextId, documents, interactions, conceptVars, calcIn, calcOut, schemaVars, conversationVars>>

RevTick ==
    /\ Tick
    /\ UNCHANGED <<nextId, nCalls, call, documents, interactions, review_cards,
                   conceptVars, calcIn, calcOut, schemaVars, conversationVars>>

InitReview ==
    /\ clock = 0
    /\ nextId = 4
    /\ nCalls = 0
    /\ call = NoCall
    /\ documents = SeedDocuments
    /\ interactions = SeedInteractions
    /\ review_cards = {}
    /\ NoConcepts
    /\ calcIn = NoCalc
    /\ calcOut = {}
    /\ SchemaReady
    /\ NoConversations

NextReview == RevCreate \/ RevUpdate \/ RevTick

SpecReview == InitReview /\ [][NextReview]_vars

----------------------------------------------------------------------------
(* SpecConcepts: the concepts repository on a store that holds a document   *)
(* and its interactions                                                     *)

ConceptNameLists == SeqsUpTo(ConceptNames, MaxBatch)

ConceptIdArgs == {c.id : c \in concepts} \cup {nextId}
InteractionIdArgs == {i.id : i \in interactions} \cup {nextId}
DocumentIdArgs == {d.id : d \in documents} \cup {nextId}

ConGetOrCreate ==
    /\ nCalls < MaxConceptCalls
    /\ nCalls' = nCalls + 1
    /\ \E name \in ConceptNames :
          LET r == getOrCreateConcept(ConceptDb, name, clock)
          IN  /\ StoreConceptDb(r.db)
              /\ call' = [op |-> "getOrCreateConcept", threw |-> r.threw, wrote |-> FALSE]
    /\ UNCHANGED <<clock, documents, interactions, review_cards, linkEvents, calcIn, calcOut, schemaVars, conversationVars>>

ConLinkInteraction ==
    /\ nCalls < MaxConceptCalls
    /\ nCalls' = nCalls + 1
    /\ \E conceptId \in ConceptIdArgs, interactionId \in InteractionIdArgs :
          LET r == linkConceptToInteraction(ConceptDb, conceptId, interactionId)
          IN  /\ StoreConceptDb(r.db)
              /\ call' = [op |-> "linkConceptToInteraction", threw |-> r.threw,
                          wrote |-> FALSE,
                          conceptId |-> conceptId, interactionId |-> interactionId,
                          before |-> interaction_concepts]
    /\ UNCHANGED <<clock, documents, interactions, review_cards, linkEvents, calcIn, calcOut, schemaVars, conversationVars>>

ConLinkDocument ==
    /\ nCalls < MaxConceptCalls
    /\ nCalls' = nCalls + 1
    /\ \E conceptId \in ConceptIdArgs, documentId \in DocumentIdArgs :
          LET r == linkConceptToDocument(ConceptDb, conceptId, documentId)
          IN  /\ StoreConceptDb(r.db)
              /\ call' = [op |-> "linkConceptToDocument", threw |-> r.threw,
                          wrote |-> FALSE]
              /\ linkEvents' = IF r.threw = ""
                               THEN linkEvents \cup {Linked(linkEvents, documentId, conceptId)}
                               ELSE linkEvents
    /\ UNCHANGED <<clock, documents, interactions, review_cards, calcIn, calcOut, schemaVars, conversationVars>>

\* call.wrote: the transaction body had changed a table when it threw
ConSave ==
    /\ nCalls < MaxConceptCalls
    /\ nCalls' = nCalls + 1
    /\ \E conceptNames \in ConceptNameLists,
          interactionId \in InteractionIdArgs, documentId \in DocumentIdArgs :
          LET r == saveConceptsForInteraction(ConceptDb, conceptNames, interactionId,
                                              documentId, clock)
              body == SaveConceptsBody(ConceptDb, conceptNames, interactionId,
                                       documentId, clock)
          IN  /\ StoreConceptDb(r.db)
              /\ call' = [op |-> "saveConceptsForInteraction", threw |-> r.threw,
                          wrote |-> /\ body.threw # ""
                                    /\ body.db.concepts # concepts
                                    /\ body.db.interaction_concepts # interaction_concepts]
              /\ linkEvents' = IF r.threw = ""
                               THEN LinkedAll(linkEvents, documentId, r.concepts)
                               ELSE linkEvents
    /\ UNCHANGED <<clock, documents, interactions, review_cards, calcIn, calcOut, schemaVars, conversationVars>>

InitConcepts ==
    /\ clock = 0
    /\ nextId = 4
    /\ nCalls = 0
    /\ call = NoCall
    /\ documents = SeedDocuments
    /\ interactions = SeedInteractions
    /\ review_cards = {}
    /\ NoConcepts
    /\ calcIn = NoCalc
    /\ calcOut = {}
    /\ SchemaReady
    /\ NoConversations

NextConcepts == ConGetOrCreate \/ ConLinkInteraction \/ ConLinkDocument \/ ConSave

SpecConcepts == InitConcepts /\ [][NextConcepts]_vars

----------------------------------------------------------------------------
(* SpecConceptNames: getOrCreateConcept and saveConceptsForInteraction      *)
(* given names that include both cases of a non-ASCII letter, with the      *)
(* interaction and the document present                                     *)

UnicodeConceptNameLists == SeqsUpTo(UnicodeConceptNames, MaxBatch)

RetIds(cs) == [i \in DOMAIN cs |-> cs[i].id]

NamGetOrCreate ==
    /\ nCalls < MaxConceptCalls
    /\ nCalls' = nCalls + 1
    /\ \E name \in UnicodeConceptNames :
          LET r == getOrCreateConcept(ConceptDb, name, clock)
          IN  /\ StoreConceptDb(r.db)
              /\ call' = [op |-> "getOrCreateConcept", threw |-> r.threw,
                          names |-> <<name>>, before |-> concepts,
                          ret |-> IF r.threw = ""
                                  THEN <<(CHOOSE c \in r.concept : TRUE).id>>
                                  ELSE <<>>]
    /\ UNCHANGED <<clock, documents, interactions, review_cards, linkEvents, calcIn, calcOut, schemaVars, conversationVars>>

NamSave ==
    /\ nCalls < MaxConceptCalls
    /\ nCalls' = nCalls + 1
    /\ \E conceptNames \in UnicodeConceptNameLists,
          i \in interactions, d \in documents :
          LET r == saveConceptsForInteraction(ConceptDb, conceptNames, i.id, d.id, clock)
          IN  /\ StoreConceptDb(r.db)
              /\ call' = [op |-> "saveConceptsForInteraction", threw |-> r.threw,
                          names |-> conceptNames, before |-> concepts,
                          interactionId |-> i.id, documentId |-> d.id,
                          beforeDocumentConcepts |-> document_concepts,
                          ret |-> IF r.threw = "" THEN RetIds(r.concepts) ELSE <<>>]
              /\ linkEvents' = IF r.threw = ""
                               THEN LinkedAll(linkEvents, d.id, r.concepts)
                               ELSE linkEvents
    /\ UNCHANGED <<clock, documents, interactions, review_cards, calcIn, calcOut, schemaVars, conversationVars>>

NextConceptNames == NamGetOrCreate \/ NamSave

SpecConceptNames == InitConcepts /\ [][NextConceptNames]_vars

----------------------------------------------------------------------------
(* SpecGraph: getConceptGraph on a store that holds three concepts and two  *)
(* interactions, while concepts are linked to interactions                  *)

SeedConcepts ==
    {[id |-> 4, name |-> <<"a">>, created_at |-> 0],
     [id |-> 5, name |-> <<"b">>, created_at |-> 0],
     [id |-> 6, name |-> <<"c">>, created_at |-> 0]}

GraphLinkInteraction ==
    /\ \E conceptId \in ConceptIdArgs, interactionId \in InteractionIdArgs :
          LET r == linkConceptToInteraction(ConceptDb, conceptId, interactionId)
          IN  /\ StoreConceptDb(r.db)
              /\ call' = [op |-> "linkConceptToInteraction", threw |-> r.threw,
                          conceptId |-> conceptId, interactionId |-> interactionId,
                          before |-> interaction_concepts]
    /\ UNCHANGED <<nCalls, clock, documents, interactions, review_cards, linkEvents,
                   calcIn, calcOut, schemaVars, conversationVars>>

GraphGet ==
    /\ call' = [op |-> "getConceptGraph", threw |-> "",
                graph |-> getConceptGraph(ConceptDb)]
    /\ UNCHANGED <<nCalls, clock, nextId, documents, interactions, review_cards,
                   conceptVars, calcIn, calcOut, schemaVars, conversationVars>>

InitGraph ==
    /\ clock = 0
    /\ nextId = 7
    /\ nCalls = 0
    /\ call = NoCall
    /\ documents = SeedDocuments
    /\ interactions = SeedInteractions
    /\ review_cards = {}
    /\ concepts = SeedConcepts
    /\ interaction_concepts = {}
    /\ document_concepts = {}
    /\ linkEvents = {}
    /\ calcIn = NoCalc
    /\ calcOut = {}
    /\ SchemaReady
    /\ NoConversations

NextGraph == GraphLinkInteraction \/ GraphGet

SpecGraph == InitGraph /\ [][NextGraph]_vars

----------------------------------------------------------------------------
(* SpecConversations: the conversations repository over one document        *)

\* limit arguments: below and at the number of conversations there can be
RecentLimits == {2, 3}

ConversationIdArgs == {c.id : c \in conversations} \cup {nextId}

ConversationFrame ==
    UNCHANGED <<clock, documents, interactions, review_cards, conceptVars,
                calcIn, calcOut, schemaVars>>

ConvCreate ==
    /\ nCalls < MaxConversationCalls
    /\ nCalls' = nCalls + 1
    /\ \E document_id \in DocumentIdArgs : createConversation(document_id)
    /\ ConversationFrame

ConvAddMessage ==
    /\ nCalls < MaxConversationCalls
    /\ nCalls' = nCalls + 1
    /\ \E conversationId \in ConversationIdArgs, role \in Roles :
          addMessage(conversationId, role)
    /\ ConversationFrame

ConvDelete ==
    /\ \E id \in ConversationIdArgs : deleteConversation(id)
    /\ UNCHANGED nCalls
    /\ ConversationFrame

ConvUpdateTitle ==
    /\ \E id \in ConversationIdArgs, title \in Titles : updateConversationTitle(id, title)
    /\ UNCHANGED nCalls
    /\ ConversationFrame

ConvGetById ==
    /\ \E id \in ConversationIdArgs : getConversationById(id)
    /\ UNCHANGED nCalls
    /\ ConversationFrame

ConvGetRecent ==
    /\ \E limit \in RecentLimits : getRecentConversations(limit)
    /\ UNCHANGED nCalls
    /\ ConversationFrame

ConvTick ==
    /\ Tick
    /\ UNCHANGED <<nextId, nCalls, call, documents, interactions, review_cards,
                   conceptVars, calcIn, calcOut, schemaVars, conversationVars>>

InitConversations == InitConcepts

NextConversations ==
    ConvCreate \/ ConvAddMessage \/ ConvDelete \/ ConvUpdateTitle \/ ConvGetById
    \/ ConvTick

SpecConversations == InitConversations /\ [][NextConversations]_vars

----------------------------------------------------------------------------
(* SpecRecent: the recent-conversations list, read while conversations are  *)
(* created, appended to, renamed and deleted and the days pass              *)

InitRecent == InitConversations

NextRecent ==
    ConvCreate \/ ConvAddMessage \/ ConvDelete \/ ConvUpdateTitle \/ ConvGetRecent
    \/ ConvTick

SpecRecent == InitRecent /\ [][NextRecent]_vars

----------------------------------------------------------------------------
(* SpecSearch: interactions saved to two documents and searched             *)

SearchSeedDocuments ==
    {[id |-> 1, filename |-> "a.pdf", filepath |-> "/p/a.pdf", last_opened_at |-> 0,
      scroll_position |-> 0, total_pages |-> {}, created_at |-> 0],
     [id |-> 2, filename |-> "b.pdf", filepath |-> "/p/b.pdf", last_opened_at |-> 0,
      scroll_position |-> 0, total_pages |-> {}, created_at |-> 0]}

SearchSave ==
    /\ nCalls < MaxSearchRows
    /\ nCalls' = nCalls + 1
    /\ \E document_id \in DocumentIdArgs, text \in Texts : saveInteraction(document_id, text)
    /\ UNCHANGED <<clock, documents, review_cards, conceptVars, calcIn, calcOut,
                   schemaVars, conversationVars>>

SearchInDocument ==
    /\ \E documentId \in DocumentIdArgs, query \in Queries, limit \in Limits :
          call' = [op |-> "searchInteractionsInDocument", documentId |-> documentId,
                   query |-> query, limit |-> limit, threw |-> "",
                   ret |-> searchInteractionsInDocument(documentId, query, limit)]
    /\ UNCHANGED <<clock, nextId, nCalls, documents, interactions, review_cards,
                   conceptVars, calcIn, calcOut, schemaVars, conversationVars>>

InitSearch ==
    /\ clock = 0
    /\ nextId = 3
    /\ nCalls = 0
    /\ call = NoCall
    /\ documents = SearchSeedDocuments
    /\ interactions = {}
    /\ review_cards = {}
    /\ NoConcepts
    /\ calcIn = NoCalc
    /\ calcOut = {}
    /\ SchemaReady
    /\ NoConversations

NextSearch == SearchSave \/ SearchInDocument

SpecSearch == InitSearch /\ [][NextSearch]_vars

----------------------------------------------------------------------------
(* SpecLookup: reads, updates and deletes by id, on a store that holds a    *)
(* document, its interactions, and the cards and conversations made so far; *)
(* every call is given an id of the store or an id the store does not hold  *)

LookupFrame ==
    UNCHANGED <<clock, nCalls, conceptVars, calcIn, calcOut, schemaVars>>

\* the calls that add rows or reschedule a card
LookupWriteFrame ==
    /\ nCalls < MaxLookupCalls
    /\ nCalls' = nCalls + 1
    /\ UNCHANGED <<clock, conceptVars, calcIn, calcOut, schemaVars>>

LookupCreateCard ==
    /\ \E interaction_id \in InteractionIdArgs : createReviewCard(interaction_id)
    /\ UNCHANGED <<documents, interactions, conversationVars>>
    /\ LookupWriteFrame

LookupUpdateCard ==
    /\ \E cardId \in {c.id : c \in review_cards} \cup {nextId}, quality \in Qualities :
          updateReviewCard(cardId, quality)
    /\ UNCHANGED <<nextId, documents, interactions, conversationVars>>
    /\ LookupWriteFrame

LookupCreateConversation ==
    /\ \E document_id \in DocumentIdArgs : createConversation(document_id)
    /\ UNCHANGED <<documents, interactions, review_cards>>
    /\ LookupWriteFrame

LookupAddMessage ==
    /\ \E conversationId \in ConversationIdArgs, role \in Roles :
          addMessage(conversationId, role)
    /\ UNCHANGED <<documents, interactions, review_cards>>
    /\ LookupWriteFrame

LookupGetInteraction ==
    /\ \E id \in InteractionIdArgs : getInteractionById(id)
    /\ UNCHANGED <<documents, review_cards, conversationVars>>
    /\ LookupFrame

LookupGetDocument ==
    /\ \E id \in DocumentIdArgs : getDocumentById(id)
    /\ UNCHANGED <<interactions, review_cards, conversationVars>>
    /\ LookupFrame

LookupUpdateDocument ==
    /\ \E id \in DocumentIdArgs, scroll_position \in ScrollPositionInputs,
          total_pages \in TotalPagesInputs :
          updateDocument(id, scroll_position, total_pages)
    /\ UNCHANGED <<interactions, review_cards, conversationVars>>
    /\ LookupFrame

LookupGetCard ==
    /\ \E interactionId \in InteractionIdArgs : getReviewCardForInteraction(interactionId)
    /\ UNCHANGED <<documents, interactions, conversationVars>>
    /\ LookupFrame

InitLookup == InitReview

NextLookup ==
    \/ LookupCreateCard \/ LookupUpdateCard
    \/ LookupCreateConversation \/ LookupAddMessage
    \/ ConvGetById \/ ConvUpdateTitle \/ ConvDelete
    \/ LookupGetInteraction \/ LookupGetDocument \/ LookupUpdateDocument
    \/ LookupGetCard

SpecLookup == InitLookup /\ [][NextLookup]_vars

----------------------------------------------------------------------------
(* SpecQueue: the review queue, read while cards are created and reviewed   *)
(* and the days pass                                                        *)

QueueFrame ==
    UNCHANGED <<documents, interactions, conceptVars, calcIn, calcOut, schemaVars,
                conversationVars>>

QueueCreate ==
    /\ nCalls < MaxQueueCalls
    /\ nCalls' = nCalls + 1
    /\ \E interaction_id \in InteractionIdArgs : createReviewCard(interaction_id)
    /\ UNCHANGED clock
    /\ QueueFrame

QueueUpdate ==
    /\ nCalls < MaxQueueCalls
    /\ nCalls' = nCalls + 1
    /\ \E cardId \in {c.id : c \in review_cards} \cup {nextId}, quality \in Qualities :
          updateReviewCard(cardId, quality)
    /\ UNCHANGED <<clock, nextId>>
    /\ QueueFrame

QueueNext ==
    /\ getNextReviewCard
    /\ UNCHANGED <<clock, nCalls>>
    /\ QueueFrame

QueueDueCount ==
    /\ getDueReviewCount
    /\ UNCHANGED <<clock, nCalls>>
    /\ QueueFrame

QueueTick ==
    /\ clock + TickStep <= MaxQueueTicks * TickStep
    /\ clock' = clock + TickStep
    /\ UNCHANGED <<nextId, nCalls, call, review_cards>>
    /\ QueueFrame

InitQueue == InitReview

NextQueue == QueueCreate \/ QueueUpdate \/ QueueNext \/ QueueDueCount \/ QueueTick

SpecQueue == InitQueue /\ [][NextQueue]_vars

----------------------------------------------------------------------------
(* SpecRetry: the store handle and withSchemaRetry, on a store file whose   *)
(* tables may be dropped between calls                                      *)

RetryCall ==
    /\ \E operation \in Operations :
          LET r == withSchemaRetry(SchemaSt, operation)
          IN  /\ StoreSchemaSt(r.st)
              /\ call' = [op |-> "withSchemaRetry", operation |-> operation,
                          invocations |-> r.invocations, thrown |-> r.thrown,
                          opCalls |-> r.st.opCalls, verifyCalls |-> r.st.verifyCalls,
                          repairCalls |-> r.st.repairCalls,
                          verifiedBefore |-> schemaVerified]
    /\ UNCHANGED <<nCalls, repositoryVars>>

RetryGetDatabase ==
    /\ StoreSchemaSt(getDatabase(SchemaSt))
    /\ call' = [op |-> "getDatabase"]
    /\ UNCHANGED <<nCalls, repositoryVars>>

RetryCloseDatabase ==
    /\ dbOpen
    /\ StoreSchemaSt(closeDatabase(SchemaSt))
    /\ call' = [op |-> "closeDatabase"]
    /\ UNCHANGED <<nCalls, repositoryVars>>

\* db.exec('DROP TABLE IF EXISTS t') on the open handle, as the tests do
RetryDropTable ==
    /\ dbOpen
    /\ Cardinality(REQUIRED_TABLES_V2 \ tables) < MaxMissing
    /\ \E t \in REQUIRED_TABLES_V2 \cap tables :
          /\ tables' = tables \ {t}
          /\ tableRows' = [tableRows EXCEPT ![t] = 0]
    /\ call' = [op |-> "dropTable"]
    /\ UNCHANGED <<nCalls, repositoryVars, dbOpen, schemaVerified, schema_version>>

InitRetry ==
    /\ clock = 0
    /\ nextId = 1
    /\ nCalls = 0
    /\ call = NoCall
    /\ documents = {}
    /\ interactions = {}
    /\ review_cards = {}
    /\ NoConcepts
    /\ calcIn = NoCalc
    /\ calcOut = {}
    /\ dbOpen = FALSE
    /\ schemaVerified = FALSE
    /\ tables = {}
    /\ schema_version = {}
    /\ tableRows = NoRows
    /\ NoConversations

NextRetry == RetryCall \/ RetryGetDatabase \/ RetryCloseDatabase \/ RetryDropTable

SpecRetry == InitRetry /\ [][NextRetry]_vars

----------------------------------------------------------------------------
(* SpecSchema: runMigrations and verifyAndRepairSchema on a store handle of *)
(* their own (new Database(':memory:')), whose tables may gain rows and be  *)
(* dropped between the calls                                                *)

\* the tables the rows are written to: one of version 1, one of version 2
RowTables == {"documents", "highlights"}

StoreBefore == [tables |-> tables, schema_version |-> schema_version, rows |-> tableRows]

SchemaRunMigrations ==
    /\ \E fault \in MigrationFaults :
          LET r == runMigrationsResult(SchemaSt, fault)
          IN  /\ StoreSchemaSt(r.st)
              /\ call' = [op |-> "runMigrations", fault |-> fault, threw |-> r.threw,
                          before |-> StoreBefore, applied |-> r.applied,
                          verifyAfter |-> verifyAndRepairSchemaResult(r.st)]
    /\ UNCHANGED <<nCalls, repositoryVars>>

SchemaVerifyAndRepair ==
    /\ StoreSchemaSt(verifyAndRepairSchema(SchemaSt))
    /\ call' = [op |-> "verifyAndRepairSchema",
                result |-> verifyAndRepairSchemaResult(SchemaSt),
                before |-> StoreBefore,
                afterVerify |-> call.op = "verifyAndRepairSchema"]
    /\ UNCHANGED <<nCalls, repositoryVars>>

\* db.exec('DROP TABLE IF EXISTS t')
SchemaDropTable ==
    /\ Cardinality(REQUIRED_TABLES_V2 \ tables) < MaxMissing
    /\ \E t \in REQUIRED_TABLES_V2 \cap tables :
          /\ tables' = tables \ {t}
          /\ tableRows' = [tableRows EXCEPT ![t] = 0]
    /\ call' = [op |-> "dropTable"]
    /\ UNCHANGED <<nCalls, repositoryVars, dbOpen, schemaVerified, schema_version>>

\* an INSERT into a table that exists
SchemaInsertRow ==
    /\ tableRows["documents"] + tableRows["highlights"] < MaxRows
    /\ \E t \in RowTables \cap tables :
          tableRows' = [tableRows EXCEPT ![t] = @ + 1]
    /\ call' = [op |-> "insertRow"]
    /\ UNCHANGED <<nCalls, repositoryVars, dbOpen, schemaVerified, tables, schema_version>>

InitSchema == InitRetry

NextSchema ==
    SchemaRunMigrations \/ SchemaVerifyAndRepair \/ SchemaDropTable \/ SchemaInsertRow

SpecSchema == InitSchema /\ [][NextSchema]_vars

----------------------------------------------------------------------------
(* SpecCalc: calculateNextReview applied to arguments drawn from bounded    *)
(* sets                                                                     *)

\* quality arguments up to three steps beyond each end of the ratings 0..5
CalcQualities == (0 - 3) .. 8

CalcInputs ==
    [quality : CalcQualities, currentInterval : 1 .. MaxIntervalIn,
     currentEaseFactor : MinEaseIn .. MaxEaseIn, reviewCount : 0 .. MaxReviewCountIn]

CalcApply ==
    /\ calcOut = {}
    /\ calcOut' = {calculateNextReview(calcIn.quality, calcIn.currentInterval,
                                       calcIn.currentEaseFactor, calcIn.reviewCount)}
    /\ UNCHANGED <<clock, nextId, nCalls, call, documents, interactions, review_cards,
                   conceptVars, calcIn, schemaVars, conversationVars>>

InitCalc ==
    /\ clock = 0
    /\ nextId = 1
    /\ nCalls = 0
    /\ call = NoCall
    /\ documents = {}
    /\ interactions = {}
    /\ review_cards = {}
    /\ NoConcepts
    /\ calcIn \in CalcInputs
    /\ calcOut = {}
    /\ SchemaReady
    /\ NoConversations

NextCalc == CalcApply

SpecCalc == InitCalc /\ [][NextCalc]_vars

----------------------------------------------------------------------------
(* C1: the documents table holds at most one row per filepath, and a       *)
(* getOrCreateDocument call whose filepath already had a row returns that  *)
(* row's id and creates no row.                                            *)
C1_OneRowPerFilepath ==
    /\ \A d1, d2 \in documents : d1.filepath = d2.filepath => d1 = d2
    /\ call.op = "getOrCreateDocument" =>
          LET had == {d \in call.before : d.filepath = call.filepath}
          IN  had # {} =>
                 /\ call.threw = ""
                 /\ {r.id : r \in call.ret} = {d.id : d \in had}
                 /\ {d.id : d \in documents} = {d.id : d \in call.before}

C1_Witness ==
    /\ call.op = "getOrCreateDocument"
    /\ \E d \in call.before : d.filepath = call.filepath
    /\ Cardinality(documents) = 2

----------------------------------------------------------------------------
(* C2: no two concept rows have names that are equal after lower-casing    *)
(* and trimming, and a getOrCreateConcept or saveConceptsForInteraction    *)
(* call given a name that, lower-cased and trimmed, equals the name of a   *)
(* row already stored returns that row's id.                               *)
NormalizedName(name) == trim(toLowerCase(name))

C2_ConceptNameUnique ==
    /\ \A c1, c2 \in concepts :
          NormalizedName(c1.name) = NormalizedName(c2.name) => c1 = c2
    /\ call.op \in {"getOrCreateConcept", "saveConceptsForInteraction"} =>
          \A i \in DOMAIN call.names :
              \A b \in call.before :
                  NormalizedName(b.name) = NormalizedName(call.names[i]) =>
                      /\ call.threw = ""
                      /\ call.ret[i] = b.id

----------------------------------------------------------------------------
(* C3: for every (document, concept) pair occurrence_count equals the      *)
(* number of links of that concept to that document made so far (the first *)
(* link creates the row with count 1), and no step lowers a count or       *)
(* removes a row.                                                          *)
C3_CountIsLinks ==
    /\ \A r \in document_concepts :
          r.occurrence_count =
              Cardinality({e \in linkEvents : /\ e.document_id = r.document_id
                                              /\ e.concept_id = r.concept_id})
    /\ \A e \in linkEvents :
          \E r \in document_concepts :
              r.document_id = e.document_id /\ r.concept_id = e.concept_id
    /\ \A r1, r2 \in document_concepts :
          (r1.document_id = r2.document_id /\ r1.concept_id = r2.concept_id) => r1 = r2

C3_CountNeverLower ==
    \A b \in document_concepts :
        \E r \in document_concepts' :
            /\ r.document_id = b.document_id
            /\ r.concept_id = b.concept_id
            /\ r.occurrence_count >= b.occurrence_count

C3_OccurrenceCount == []C3_CountIsLinks /\ [][C3_CountNeverLower]_vars

\* the same concept linked to the same document three times
C3_Witness ==
    \E r \in document_concepts : r.occurrence_count = 3

----------------------------------------------------------------------------
(* C4: a saveConceptsForInteraction call that throws leaves concepts,      *)
(* interaction_concepts and document_concepts as they were before the call *)
C4_SaveAllOrNothing ==
    [][(call'.op = "saveConceptsForInteraction" /\ call'.threw # "") =>
          UNCHANGED <<concepts, interaction_concepts, document_concepts>>]_vars

\* a foreign-key failure on the document id, after the call had inserted a
\* concept and its interaction link
C4_Witness ==
    /\ call.op = "saveConceptsForInteraction"
    /\ call.threw = "SQLITE_CONSTRAINT_FOREIGNKEY"
    /\ call.wrote

----------------------------------------------------------------------------
(* C5: the ease_factor of every stored review card, and of every card an   *)
(* updateReviewCard call returns, is at least 1.3.                         *)
C5_EaseFloor ==
    /\ \A c \in review_cards : c.ease_factor >= 130
    /\ call.op = "updateReviewCard" => \A r \in call.ret : r.ease_factor >= 130

\* a card rated 0 twice in a row sits on the floor
C5_Witness ==
    /\ call.op = "updateReviewCard"
    /\ call.quality <= 0
    /\ \E b \in call.before : b.ease_factor < 250 /\ b.ease_factor - 80 < 130
    /\ \E r \in call.ret : r.ease_factor = 130

----------------------------------------------------------------------------
(* C6: calculateNextReview returns interval 1 when the clamped quality is  *)
(* below 3; otherwise 1 when reviewCount is 0, 6 when reviewCount is 1,    *)
(* and round(currentInterval * ease') when reviewCount is 2 or more, with  *)
(* ease' the ease factor the same call returns.                            *)
C6_IntervalRules ==
    \A out \in calcOut :
        LET q == IF calcIn.quality < 0 THEN 0
                 ELSE IF calcIn.quality > 5 THEN 5 ELSE calcIn.quality
            product == calcIn.currentInterval * out.easeFactor
        IN  /\ q < 3 => out.intervalDays = 1
            /\ (q >= 3 /\ calcIn.reviewCount = 0) => out.intervalDays = 1
            /\ (q >= 3 /\ calcIn.reviewCount = 1) => out.intervalDays = 6
            /\ (q >= 3 /\ calcIn.reviewCount >= 2) =>
                  \* the integer nearest to product / 100, a half rounding up
                  /\ 100 * out.intervalDays <= product + 50
                  /\ product + 50 < 100 * (out.intervalDays + 1)

\* the test's growth case: quality 5, interval 6, ease 2.5, reviewCount 2
C6_Witness ==
    /\ calcIn = [quality |-> 5, currentInterval |-> 6, currentEaseFactor |-> 250,
                 reviewCount |-> 2]
    /\ \E out \in calcOut : out.easeFactor = 260 /\ out.intervalDays = 16

----------------------------------------------------------------------------
(* C7: calculateNextReview returns the ease factor max(1.3, ease + d(q))   *)
(* for the clamped quality q, where d is +0.10, 0, -0.14, -0.32, -0.54,    *)
(* -0.80 for q = 5, 4, 3, 2, 1, 0, and there is no upper bound.            *)
C7_EaseUpdate ==
    \A out \in calcOut :
        LET q == IF calcIn.quality < 0 THEN 0
                 ELSE IF calcIn.quality > 5 THEN 5 ELSE calcIn.quality
            d == CASE q = 5 -> 10
                   [] q = 4 -> 0
                   [] q = 3 -> 0 - 14
                   [] q = 2 -> 0 - 32
                   [] q = 1 -> 0 - 54
                   [] q = 0 -> 0 - 80
            raw == calcIn.currentEaseFactor + d
        IN  out.easeFactor = IF raw < 130 THEN 130 ELSE raw

\* the largest ease given still grows, and a low one is lifted to the floor
C7_Witness ==
    /\ calcIn.quality = 5
    /\ calcIn.currentEaseFactor = MaxEaseIn
    /\ \E out \in calcOut : out.easeFactor = MaxEaseIn + 10

----------------------------------------------------------------------------
(* C8: updateReviewCard on an existing card sets review_count to the old   *)
(* value plus 1 when quality is 3 or more and to 0 when it is below 3, and *)
(* the stored row holds the next_review_at, interval_days, ease_factor and *)
(* review_count of the card the call returns.                              *)
C8_ReviewCount ==
    (call.op = "updateReviewCard" /\ call.before # {}) =>
        \A old \in call.before :
            /\ Cardinality(call.ret) = 1
            /\ \A r \in call.ret :
                  /\ r.review_count = IF call.quality >= 3 THEN old.review_count + 1 ELSE 0
                  /\ \E s \in review_cards :
                        /\ s.id = call.cardId
                        /\ s.next_review_at = r.next_review_at
                        /\ s.interval_days = r.interval_days
                        /\ s.ease_factor = r.ease_factor
                        /\ s.review_count = r.review_count

\* a lapse after two successful reviews
C8_Witness ==
    /\ call.op = "updateReviewCard"
    /\ call.quality < 3
    /\ \E old \in call.before : old.review_count = 2
    /\ \E r \in call.ret : r.review_count = 0

----------------------------------------------------------------------------
\* an error whose code is SQLITE_ERROR and whose message holds "no such table"
MissingTable(error) ==
    /\ error.code = "SQLITE_ERROR"
    /\ \E i \in 1 .. Len(error.message) : error.message[i] = "no such table"

FirstError == call.invocations[1]

(* C9: in one withSchemaRetry call the operation is invoked at most twice; *)
(* when its first run fails with a missing-table error the catch block     *)
(* repairs the schema once and the operation is run exactly once more; the *)
(* outcome of that second run, an error included, is the outcome of the    *)
(* call, with no further repair or run.                                    *)
C9_RetryOnce ==
    call.op = "withSchemaRetry" =>
        /\ call.opCalls <= 2
        /\ call.opCalls = Len(call.invocations)
        /\ (\E e \in FirstError : MissingTable(e)) =>
              /\ call.opCalls = 2
              /\ call.repairCalls = 1
              /\ call.thrown = call.invocations[2]

\* the table the operation reads is not one the repair creates: the second
\* run fails as the first did and its error leaves the call
C9_Witness ==
    /\ call.op = "withSchemaRetry"
    /\ \E e \in FirstError : MissingTable(e)
    /\ call.opCalls = 2
    /\ call.repairCalls = 1
    /\ call.invocations[2] # {}
    /\ call.thrown = call.invocations[2]

\* a dropped table comes back and the second run returns
C9_WitnessRecovered ==
    /\ call.op = "withSchemaRetry"
    /\ \E e \in FirstError : MissingTable(e)
    /\ call.opCalls = 2
    /\ call.repairCalls = 1
    /\ call.thrown = {}

----------------------------------------------------------------------------
(* C10: when the operation's first run fails with an error that is not a   *)
(* missing-table error, that error leaves the withSchemaRetry call, the    *)
(* catch block runs no schema repair (and on a store already verified no   *)
(* verification runs at all), and the operation is not run again.          *)
C10_OtherErrorsPropagate ==
    (/\ call.op = "withSchemaRetry"
     /\ \E e \in FirstError : ~MissingTable(e)) =>
        /\ call.thrown = FirstError
        /\ call.opCalls = 1
        /\ call.repairCalls = 0
        /\ call.verifiedBefore => call.verifyCalls = 0

C10_Witness ==
    /\ call.op = "withSchemaRetry"
    /\ call.verifiedBefore
    /\ FirstError = {ForeignKeyError}
    /\ call.thrown = {ForeignKeyError}
    /\ call.opCalls = 1

C10_WitnessSqliteError ==
    /\ call.op = "withSchemaRetry"
    /\ FirstError = {NoSuchColumnError}
    /\ call.thrown = {NoSuchColumnError}
    /\ call.opCalls = 1

----------------------------------------------------------------------------
(* C11: after a verifyAndRepairSchema call every required table exists,    *)
(* the returned list holds exactly the required tables that were absent    *)
(* before the call, repaired is true exactly when that list is not empty,  *)
(* and every table that existed before the call still exists with the rows *)
(* it had.                                                                 *)
C11_RepairKeepsTables ==
    call.op = "verifyAndRepairSchema" =>
        /\ REQUIRED_TABLES_V2 \subseteq tables
        /\ call.result.missingTables = REQUIRED_TABLES_V2 \ call.before.tables
        /\ call.result.repaired = (REQUIRED_TABLES_V2 \ call.before.tables # {})
        /\ call.before.tables \subseteq tables
        /\ \A t \in REQUIRED_TABLES_V2 \cap call.before.tables :
              tableRows[t] = call.before.rows[t]
        /\ schema_version = call.before.schema_version

\* a repair that created a table on a store where another table held a row
C11_Witness ==
    /\ call.op = "verifyAndRepairSchema"
    /\ call.result.repaired
    /\ \E t \in REQUIRED_TABLES_V2 \cap call.before.tables :
          call.before.rows[t] > 0 /\ tableRows[t] = call.before.rows[t]

----------------------------------------------------------------------------
(* C12: a verifyAndRepairSchema call on a store that holds every required  *)
(* table returns repaired = false and changes nothing, and a call made     *)
(* directly after another verifyAndRepairSchema call returns repaired =    *)
(* false.                                                                  *)
C12_RepairIdempotent ==
    call.op = "verifyAndRepairSchema" =>
        /\ REQUIRED_TABLES_V2 \subseteq call.before.tables =>
              /\ ~call.result.repaired
              /\ call.result.missingTables = {}
              /\ StoreBefore = call.before
        /\ call.afterVerify => ~call.result.repaired

\* the second of two calls in a row, on a store that holds a row
C12_Witness ==
    /\ call.op = "verifyAndRepairSchema"
    /\ call.afterVerify
    /\ ~call.result.repaired
    /\ StoreBefore = call.before
    /\ tableRows["documents"] > 0

----------------------------------------------------------------------------
(* C13: a runMigrations call on a store with no version row either returns *)
(* with every table of the current schema version created and the version  *)
(* recorded, or throws and leaves no table of the migration and no version *)
(* row behind; after it a recorded version comes with all of its tables.   *)
C13_MigrationAtomic ==
    (call.op = "runMigrations" /\ call.before.schema_version = {}) =>
        /\ call.threw = "" =>
              /\ REQUIRED_TABLES_V1 \subseteq tables
              /\ schema_version = {SCHEMA_VERSION}
        /\ call.threw # "" =>
              /\ tables \ {"schema_version"} = call.before.tables \ {"schema_version"}
              /\ schema_version = {}
        /\ schema_version # {} => REQUIRED_TABLES_V1 \subseteq tables
        /\ tableRows = call.before.rows

\* the version write fails after the migration step had created its tables
C13_Witness ==
    /\ call.op = "runMigrations"
    /\ call.fault = "version write"
    /\ call.threw # ""
    /\ call.before.schema_version = {}
    /\ ~(REQUIRED_TABLES_V1 \subseteq call.before.tables)
    /\ tables \ {"schema_version"} = call.before.tables \ {"schema_version"}

----------------------------------------------------------------------------
(* C14: after runMigrations on a fresh store every table of the version-2  *)
(* required set exists, schema_version holds 2, and a following            *)
(* verifyAndRepairSchema reports repaired = false.                         *)
C14_FreshStoreIsVersion2 ==
    (call.op = "runMigrations" /\ call.before.tables = {} /\ call.threw = "") =>
        /\ REQUIRED_TABLES_V2 \subseteq tables
        /\ schema_version = {2}
        /\ ~call.verifyAfter.repaired

----------------------------------------------------------------------------
(* C15: the links getConceptGraph returns hold, for every two distinct     *)
(* concepts linked to a common interaction, exactly one link between the   *)
(* two, whose weight is the number of interactions both are linked to; no  *)
(* link for two concepts without a common interaction; no link from a      *)
(* concept to itself; and never a link in both directions.                 *)
CommonInteractions(a, b) ==
    {ic.interaction_id : ic \in {x \in interaction_concepts : x.concept_id = a}}
    \cap {ic.interaction_id : ic \in {x \in interaction_concepts : x.concept_id = b}}

LinksBetween(links, a, b) ==
    {l \in links : {l.source, l.target} = {a, b}}

C15_GraphLinks ==
    call.op = "getConceptGraph" =>
        /\ \A a, b \in {c.id : c \in concepts} :
              a # b =>
                 IF CommonInteractions(a, b) # {}
                 THEN /\ Cardinality(LinksBetween(call.graph.links, a, b)) = 1
                      /\ \A l \in LinksBetween(call.graph.links, a, b) :
                            l.weight = Cardinality(CommonInteractions(a, b))
                 ELSE LinksBetween(call.graph.links, a, b) = {}
        /\ \A l \in call.graph.links :
              /\ l.source # l.target
              /\ \E a, b \in {c.id : c \in concepts} : l.source = a /\ l.target = b

\* two concepts linked to both interactions, a third linked to one of them
C15_Witness ==
    /\ call.op = "getConceptGraph"
    /\ \E l \in call.graph.links : l.weight = 2
    /\ \E l \in call.graph.links : l.weight = 1
    /\ Cardinality(call.graph.links) = 3
    /\ Cardinality(call.graph.nodes) = 3

----------------------------------------------------------------------------
(* C16: after deleteConversation(id) no conversation_messages row has      *)
(* conversation_id = id, however many messages addMessage had added to it, *)
(* and in every reachable state every message's conversation exists.       *)
C16_NoOrphanMessages ==
    /\ call.op = "deleteConversation" =>
          \A m \in conversation_messages : m.conversation_id # call.id
    /\ \A m \in conversation_messages :
          \E c \in conversations : c.id = m.conversation_id

\* a conversation deleted together with the two messages it held
C16_Witness ==
    /\ call.op = "deleteConversation"
    /\ call.ret
    /\ call.removed = 2
    /\ \A m \in conversation_messages : m.conversation_id # call.id

----------------------------------------------------------------------------
(* C17: every row searchInteractionsInDocument(d, q, limit) returns is an  *)
(* interaction whose document_id is d, also when q matches interactions of *)
(* other documents, and it returns at most limit rows.                     *)
C17_ScopedSearch ==
    call.op = "searchInteractionsInDocument" =>
        /\ \A i \in DOMAIN call.ret :
              /\ call.ret[i] \in interactions
              /\ call.ret[i].document_id = call.documentId
        /\ Len(call.ret) <= call.limit

\* the query matches an interaction of the document and one of another
C17_Witness ==
    /\ call.op = "searchInteractionsInDocument"
    /\ Len(call.ret) = 1
    /\ call.ret[1].document_id = call.documentId
    /\ \E other \in interactions :
          /\ other.document_id # call.documentId
          /\ Matches(call.query, other)

\* more rows of the document match than the limit lets through
C17_WitnessLimit ==
    /\ call.op = "searchInteractionsInDocument"
    /\ Len(call.ret) = call.limit
    /\ Cardinality({r \in interactions : /\ r.document_id = call.documentId
                                         /\ Matches(call.query, r)}) > call.limit

----------------------------------------------------------------------------
(* C18: a read, update or delete by an id the store does not hold does not *)
(* throw, returns its sentinel - no row from getInteractionById,           *)
(* getDocumentById, getConversationById, getReviewCardForInteraction and   *)
(* updateReviewCard, false from updateDocument, updateConversationTitle    *)
(* and deleteConversation - and leaves every table as it was.              *)
StoreTables ==
    <<documents, interactions, review_cards, conversations, conversation_messages>>

\* the call of this step, when its id is the id of no row of the table it names
MissingIdCall(ops, ids) ==
    /\ call'.op \in ops
    /\ (IF call'.op = "updateReviewCard" THEN call'.cardId ELSE call'.id) \notin ids

C18_MissingIdStep ==
    /\ MissingIdCall({"getInteractionById"}, {i.id : i \in interactions})
       \/ MissingIdCall({"getDocumentById"}, {d.id : d \in documents})
       \/ MissingIdCall({"getConversationById"}, {c.id : c \in conversations})
       \/ MissingIdCall({"getReviewCardForInteraction"},
                        {c.interaction_id : c \in review_cards})
       \/ MissingIdCall({"updateReviewCard"}, {c.id : c \in review_cards})
       => /\ call'.threw = ""
          /\ call'.ret = {}
          /\ UNCHANGED StoreTables
    /\ MissingIdCall({"updateDocument"}, {d.id : d \in documents})
       \/ MissingIdCall({"updateConversationTitle", "deleteConversation"},
                        {c.id : c \in conversations})
       => /\ call'.threw = ""
          /\ call'.ret = FALSE
          /\ UNCHANGED StoreTables

C18_MissingIdSentinel == [][C18_MissingIdStep]_vars

\* updateDocument with a field to set and an id of no document, on a store
\* that holds a document, a card and a conversation
C18_Witness ==
    /\ call.op = "updateDocument"
    /\ call.id \notin {d.id : d \in documents}
    /\ call.fields # {}
    /\ call.ret = FALSE
    /\ documents # {}
    /\ review_cards # {}
    /\ conversations # {}

----------------------------------------------------------------------------
(* C19: getNextReviewCard returns a card that is due (next_review_at <=    *)
(* now) and whose next_review_at is the least among the due cards, returns *)
(* no card, without an error, exactly when no card is due; and             *)
(* getDueReviewCount returns the number of cards with next_review_at <=    *)
(* now.                                                                    *)
DueCards == {c \in review_cards : c.next_review_at <= call.at}

C19_NextIsEarliestDue ==
    /\ call.op = "getNextReviewCard" =>
          /\ call.threw = ""
          /\ (call.ret = {}) = (DueCards = {})
          /\ \A r \in call.ret :
                /\ r \in DueCards
                /\ \A o \in DueCards : r.next_review_at <= o.next_review_at
    /\ call.op = "getDueReviewCount" =>
          /\ call.threw = ""
          /\ call.ret = Cardinality(DueCards)

\* two cards are due at different times and the earlier one is returned
C19_Witness ==
    /\ call.op = "getNextReviewCard"
    /\ \E r \in call.ret, o \in DueCards : r.next_review_at < o.next_review_at

\* a card exists, none is due, and no card is returned
C19_WitnessNoneDue ==
    /\ call.op = "getNextReviewCard"
    /\ review_cards # {}
    /\ call.ret = {}

----------------------------------------------------------------------------
(* C20: at every state no two review cards have the same interaction_id;   *)
(* a createReviewCard call for an interaction that already has a card does *)
(* not leave two cards of that interaction.                                *)
C20_OneCardPerInteraction ==
    \A a, b \in review_cards : a.interaction_id = b.interaction_id => a.id = b.id

----------------------------------------------------------------------------
(* C21: every write of a review card stores next_review_at = the time of   *)
(* the write + interval_days days (a day is 86,400,000 ms, here 86,400 s), *)
(* with the interval_days the same write stores: createReviewCard stores   *)
(* interval_days 1, ease_factor 2.5, review_count 0 and a due time one day *)
(* after creation; updateReviewCard stores the due time of the interval it *)
(* has just calculated.                                                    *)
C21_DueTimeFromStoredInterval ==
    /\ call.op = "createReviewCard" =>
          \A r \in call.ret :
              /\ r \in review_cards
              /\ r.interval_days = 1
              /\ r.ease_factor = 250
              /\ r.review_count = 0
              /\ r.next_review_at = r.created_at + 86400
    /\ call.op = "updateReviewCard" =>
          \A r \in call.ret :
              /\ r \in review_cards
              /\ r.next_review_at = call.at + r.interval_days * 86400
              /\ \A b \in call.before :
                    r.interval_days =
                        calculateNextReview(call.quality, b.interval_days,
                                            b.ease_factor, b.review_count).intervalDays
    /\ \A c \in review_cards :
          LET written == c.next_review_at - c.interval_days * 86400
          IN  c.created_at <= written /\ written <= clock

\* a review a day after creation that moves the interval from 1 day to 6
C21_Witness ==
    /\ call.op = "updateReviewCard"
    /\ call.at > 0
    /\ \E b \in call.before, r \in call.ret :
          /\ b.interval_days = 1
          /\ r.interval_days = 6
          /\ r.next_review_at = call.at + 6 * 86400
          /\ r \in review_cards

----------------------------------------------------------------------------
(* C22: calculateNextReview clamps quality to 0..5 before use: for a       *)
(* quality below 0 it returns the interval and ease factor it returns for  *)
(* quality 0, and for a quality above 5 those it returns for quality 5,    *)
(* whatever the interval, ease factor and review count.                    *)
C22_QualityClamped ==
    \A out \in calcOut :
        /\ calcIn.quality < 0 =>
              out = calculateNextReview(0, calcIn.currentInterval,
                                        calcIn.currentEaseFactor, calcIn.reviewCount)
        /\ calcIn.quality > 5 =>
              out = calculateNextReview(5, calcIn.currentInterval,
                                        calcIn.currentEaseFactor, calcIn.reviewCount)

\* the test's case -1, and a lower quality, with an ease factor that the
\* floor of 1.3 does not reach
C22_Witness ==
    /\ calcIn.quality < 0 - 1
    /\ calcIn.currentEaseFactor = 250
    /\ \E out \in calcOut : out.easeFactor = 170 /\ out.intervalDays = 1

\* a quality above 5 on a card in the growth phase
C22_WitnessAbove ==
    /\ calcIn.quality > 6
    /\ calcIn.currentEaseFactor = 250
    /\ calcIn.currentInterval = 6
    /\ calcIn.reviewCount = 2
    /\ \E out \in calcOut : out.easeFactor = 260 /\ out.intervalDays = 16

----------------------------------------------------------------------------
(* C23: a linkConceptToInteraction call for a pair (interaction, concept)  *)
(* that is already linked does not fail and leaves interaction_concepts as *)
(* it was, with exactly one row for the pair; so it is after any number of *)
(* repeated calls.                                                         *)
PairRows(rows, interactionId, conceptId) ==
    {r \in rows : r.interaction_id = interactionId /\ r.concept_id = conceptId}

C23_LinkIdempotent ==
    call.op = "linkConceptToInteraction" =>
        /\ PairRows(call.before, call.interactionId, call.conceptId) # {} =>
              /\ call.threw = ""
              /\ interaction_concepts = call.before
        /\ call.threw = "" =>
              Cardinality(PairRows(interaction_concepts, call.interactionId,
                                   call.conceptId)) = 1

\* a repeated link on a table that holds another link as well
C23_Witness ==
    /\ call.op = "linkConceptToInteraction"
    /\ PairRows(call.before, call.interactionId, call.conceptId) # {}
    /\ call.threw = ""
    /\ Cardinality(interaction_concepts) = 2

----------------------------------------------------------------------------
(* C24: on a store whose recorded version v is lower than the current      *)
(* version N, runMigrations runs exactly the steps v+1..N, in increasing   *)
(* order and in one transaction (a failure leaves the tables and the       *)
(* version as they were), runs no step numbered v or lower, and leaves     *)
(* schema_version holding the single value N; on a store at version N it   *)
(* runs no step and changes nothing.                                       *)
RecordedVersion(rows) == IF rows = {} THEN 0 ELSE CHOOSE v \in rows : TRUE

C24_WitnessFromZero ==
    /\ call.op = "runMigrations"
    /\ call.before.schema_version = {}
    /\ call.before.tables # {}
    /\ call.before.rows # NoRows
    /\ call.applied = <<1>>
    /\ schema_version = {SCHEMA_VERSION}

----------------------------------------------------------------------------
(* C25: addMessage(c, ...) stores the message and sets conversation c's    *)
(* updated_at to the time of the call in one step, so updated_at >=        *)
(* created_at holds for every conversation in every state; and             *)
(* getRecentConversations lists first the conversation that last received  *)
(* a message, when no conversation was created or renamed after that       *)
(* message.                                                                *)

\* ids are handed out in the order of the writes: the message written last
LastMessage == {m \in conversation_messages : \A o \in conversation_messages : o.id <= m.id}

\* the conversation that last received a message, when nothing else was
\* created or renamed since
LastAppended ==
    {c \in conversations :
        \E m \in LastMessage :
            /\ m.conversation_id = c.id
            /\ \A o \in conversations \ {c} : o.id < m.id /\ o.title = {}}

C25_AppendRefreshes ==
    /\ \A c \in conversations : c.updated_at >= c.created_at
    /\ (call.op = "addMessage" /\ call.threw = "") =>
          /\ call.ret \subseteq conversation_messages
          /\ \A c \in conversations : c.id = call.id => c.updated_at = call.at
    /\ (call.op = "addMessage" /\ call.threw # "") =>
          \A m \in conversation_messages : m.conversation_id # call.id

----------------------------------------------------------------------------
(* C26: a lapse restarts the learning phase.  An updateReviewCard with     *)
(* quality below 3 stores interval_days 1 and review_count 0, whatever the *)
(* card's interval and review count were; the review with quality 3 or     *)
(* more of a card in that state stores interval_days 1 and review_count 1; *)
(* and the review with quality 3 or more that follows it stores            *)
(* interval_days 6.                                                        *)
C26_LapseRestartsLearning ==
    call.op = "updateReviewCard" =>
        \A b \in call.before, r \in call.ret :
            /\ r \in review_cards
            /\ call.quality < 3 => r.interval_days = 1 /\ r.review_count = 0
            /\ (call.quality >= 3 /\ b.review_count = 0) =>
                  /\ b.interval_days = 1
                  /\ r.interval_days = 1
                  /\ r.review_count = 1
            /\ (call.quality >= 3 /\ b.review_count = 1) =>
                  /\ b.interval_days = 1
                  /\ r.interval_days = 6
                  /\ r.review_count = 2

\* the second successful review after a lapse: a card with one review
\* counted and an ease factor below 2.36 has failed a review before
C26_Witness ==
    /\ call.op = "updateReviewCard"
    /\ call.quality >= 3
    /\ \E b \in call.before, r \in call.ret :
          /\ b.review_count = 1
          /\ b.ease_factor < 236
          /\ r.interval_days = 6

\* the lapse of a card that had reached an interval of 6 days
C26_WitnessLapse ==
    /\ call.op = "updateReviewCard"
    /\ call.quality < 3
    /\ \E b \in call.before, r \in call.ret :
          /\ b.review_count = 2
          /\ b.interval_days = 6
          /\ r.interval_days = 1
          /\ r.review_count = 0

----------------------------------------------------------------------------
(* C27: a getOrCreateDocument call for a filepath that already has a row   *)
(* changes only that row's last_opened_at, which becomes the time of the   *)
(* call: the row's id, filename, total_pages, scroll_position and          *)
(* created_at and every other row stay as they were, whatever filename and *)
(* total_pages the call passes, and the document returned is the stored    *)
(* row.                                                                    *)
C27_ReopenTouchesLastOpened ==
    call.op = "getOrCreateDocument" =>
        LET had == {d \in call.before : d.filepath = call.filepath}
            now == {[id |-> d.id, filename |-> d.filename, filepath |-> d.filepath,
                     last_opened_at |-> call.at, scroll_position |-> d.scroll_position,
                     total_pages |-> d.total_pages, created_at |-> d.created_at]
                    : d \in had}
        IN  had # {} =>
               /\ call.threw = ""
               /\ documents = (call.before \ had) \cup now
               /\ call.ret = now
               /\ call.ret \subseteq documents

\* a document with a page count and a saved scroll position is opened a day
\* later under another filename and page count, next to a second document
C27_Witness ==
    /\ call.op = "getOrCreateDocument"
    /\ Cardinality(documents) = 2
    /\ \E d \in call.before, r \in call.ret :
          /\ d.filepath = call.filepath
          /\ d.filename # call.filename
          /\ d.total_pages # call.total_pages
          /\ d.total_pages # {}
          /\ d.scroll_position # 0
          /\ d.last_opened_at < call.at
          /\ r.scroll_position = d.scroll_position
          /\ r.last_opened_at = call.at

----------------------------------------------------------------------------
(* C28: in every state and at every time now, getDueReviewCount() returns  *)
(* more than 0 exactly when getNextReviewCard() returns a card: the count, *)
(* which reads review_cards alone, reports no due card that the selection, *)
(* which joins interactions and documents, cannot return.                  *)

\* the answers change only at the due times of the cards: the times checked
\* are each due time, the second before it, and the present
ReviewTimes ==
    {clock} \cup {c.next_review_at : c \in review_cards}
            \cup {c.next_review_at - 1 : c \in review_cards}

C28_CountAgreesWithNext ==
    /\ \A now \in ReviewTimes :
          (DueReviewCount(now) > 0) = (NextReviewCardRows(now) # {{}})
    /\ \A c \in review_cards : c \in ReviewCardsWithContext

\* one of two cards is due now, the count has just been read as 1, and the
\* selection returns the card that is due
C28_Witness ==
    /\ call.op = "getDueReviewCount"
    /\ call.at = clock
    /\ call.ret = 1
    /\ Cardinality(review_cards) = 2
    /\ \A ret \in NextReviewCardRows(clock) :
          ret # {} /\ \A r \in ret : r.next_review_at <= clock

----------------------------------------------------------------------------
(* C29: for a card created by createReviewCard, after any sequence of      *)
(* updateReviewCard calls with any qualities, interval_days is a whole     *)
(* number of at least 1 and review_count is at least 0, so the             *)
(* next_review_at a review stores is strictly later than the time of that  *)
(* review.                                                                 *)
C29_IntervalAtLeastOneDay ==
    /\ \A c \in review_cards :
          /\ c.interval_days \in Nat
          /\ c.interval_days >= 1
          /\ c.review_count \in Nat
          /\ c.next_review_at > c.created_at
    /\ call.op = "updateReviewCard" =>
          \A r \in call.ret :
              /\ r.interval_days >= 1
              /\ r.review_count >= 0
              /\ r.next_review_at > call.at

\* the third review of a card, a day after its creation and with a quality
\* outside 0..5
C29_Witness ==
    /\ call.op = "updateReviewCard"
    /\ call.quality \notin 0 .. 5
    /\ call.at > 0
    /\ \E b \in call.before, r \in call.ret :
          /\ b.review_count = 2
          /\ r.next_review_at > call.at

----------------------------------------------------------------------------
(* C30: one saveConceptsForInteraction call whose list names the same      *)
(* concept k times (names equal after lower-casing and trimming) does not  *)
(* fail, creates at most one concept row for it, leaves exactly one        *)
(* interaction_concepts row for it, raises the concept's occurrence_count  *)
(* for the document by exactly k, and returns k entries with one concept   *)
(* id.                                                                     *)
OccurrenceCount(rows, documentId, conceptId) ==
    LET hit == {r \in rows : r.document_id = documentId /\ r.concept_id = conceptId}
    IN  IF hit = {} THEN 0 ELSE (CHOOSE r \in hit : TRUE).occurrence_count

C30_RepeatedNameInBatch ==
    call.op = "saveConceptsForInteraction" =>
        \A i \in DOMAIN call.names :
            LET same == {j \in DOMAIN call.names :
                            NormalizedName(call.names[j]) = NormalizedName(call.names[i])}
                k == Cardinality(same)
            IN  k >= 2 =>
                   /\ call.threw = ""
                   /\ Len(call.ret) = Len(call.names)
                   /\ \A j \in same : call.ret[j] = call.ret[i]
                   /\ Cardinality({c \in concepts \ call.before :
                                      NormalizedName(c.name) = NormalizedName(call.names[i])})
                         <= 1
                   /\ Cardinality(PairRows(interaction_concepts, call.interactionId,
                                           call.ret[i])) = 1
                   /\ OccurrenceCount(document_concepts, call.documentId, call.ret[i])
                         = OccurrenceCount(call.beforeDocumentConcepts, call.documentId,
                                           call.ret[i]) + k

=============================================================================
